---- MODULE Spec2Model ----
(***************************************************************************)
(* Model of backend/index.js of the VPS monitor: the periodic samplers     *)
(* that refresh the shared snapshot latestMetrics, the socket.io push      *)
(* channel, the history recorder and janitor over the sqlite table         *)
(* "metrics", and the GET /api/history handler.                            *)
(* The dashboard that shows what is pushed (App.tsx) is modelled by its    *)
(* server list and its socket connections.                                 *)
(*                                                                         *)
(* A JavaScript object is a TLA+ record (a function on its property        *)
(* names); {} is the record with no fields.  A value that may be null is   *)
(* a sequence of length 0 or 1.  An async function is suspended at each    *)
(* await; the step that resumes it draws what the provider settled the     *)
(* promise with, and runs to the next await or to the end without          *)
(* interruption (one event-loop turn and its microtasks).  A provider call *)
(* that never returns is one whose resuming step never happens.            *)
(***************************************************************************)
EXTENDS Integers, Sequences, FiniteSets, TLC

VARIABLES
    bootPc,         \* position of startBackgroundTasks
    staticData,     \* <<>> for null, else <<[cpu |-> identity]>>
    latestMetrics,  \* the snapshot
    fastRuns,       \* updateFastMetrics calls in flight, in issue order
    networkRuns,    \* updateNetworkMetrics calls in flight, in issue order
    diskRuns,       \* updateDiskMetrics calls in flight, in issue order
    osUptime,       \* what os.uptime() returns now (seconds)
    ticks,          \* number of sampler timer callbacks fired so far
    phase,          \* per observer: "new", "connected", "gone"
    received,       \* per observer: the 'metrics' payloads delivered so far
    lastFailed,     \* history: the sampler run resumed last ended in its catch block
    now,            \* the clock of the store (seconds)
    tz,             \* offset of local time from the store's clock (seconds)
    db,             \* rows of table metrics, in rowid order
    nextId,         \* next AUTOINCREMENT id
    response,       \* <<>>, or <<reply>> when this turn of the event loop answered
                    \* a GET /api/history
    servers,        \* dashboard: the list of ServerConfig objects
    activeServerId, \* dashboard: the id of the selected server
    sockets,        \* dashboard: every Socket object io(url) has made, in order
    socket,         \* dashboard: the socket state, 0 for null, else an index of sockets
    effectSocket,   \* dashboard: the s of the last run of the effect, 0 before it
    isConnected,    \* dashboard: the isConnected state
    metrics,        \* dashboard: <<>> for null, else <<the socket that delivered it>>
    history         \* dashboard: live points, each the socket that delivered it

samplerVars == <<bootPc, staticData, latestMetrics, fastRuns, networkRuns, diskRuns,
                 osUptime, ticks, lastFailed>>
observerVars == <<phase, received>>
storeVars == <<now, tz, db, nextId>>
clientVars == <<servers, activeServerId, sockets, socket, effectSocket, isConnected,
               metrics, history>>
backendVars == <<samplerVars, observerVars, storeVars, response>>
vars == <<samplerVars, observerVars, storeVars, response, clientVars>>

----------------------------------------------------------------------------
(* Bounds of the model *)

MaxTicks == 2         \* callbacks of the three sampler timers in one behaviour
MaxUptime == 1        \* os.uptime() values 0..MaxUptime
MaxRows == 4          \* rows inserted in one behaviour
MaxServers == 3       \* entries of the dashboard's server list
MaxSockets == 4       \* Socket objects the dashboard makes in one behaviour
MaxEvents == 2        \* points of the dashboard's live history

\* setInterval(recordHistory, 60000) and setInterval(cleanupHistory, 3600000)
RecordIntervalMs == 60000

CleanupIntervalMs == 3600000

Hour == 60 * 60

Day == 24 * Hour

\* The instants the store's clock visits, as ages before the last one: the
\* edge of each query window, one second inside it, and 30 min, 2 h, 25 h, 8 d.
Ages ==
    {0, Hour \div 2, Hour - 1, Hour, 2 * Hour, 6 * Hour - 1, 6 * Hour, 24 * Hour - 1,
     24 * Hour, 25 * Hour, 7 * Day - 1, 7 * Day, 8 * Day}

Instants == { Hour + 8 * Day - age : age \in Ages }

\* offsets of local time from the store's clock (UTC), in seconds
TzOffsets == {5 * Hour + Hour \div 2}

Observers == {"o1", "o2"}

----------------------------------------------------------------------------
(* The telemetry provider (systeminformation): what a call can resolve to. *)
(* Each reading carries a property the backend does not copy.              *)

CpuInfo ==
    [manufacturer |-> "Intel", brand |-> "Xeon", speed |-> 2, cores |-> 4,
     vendor |-> "GenuineIntel"]

\* what si.cpu() can resolve to at different moments: the speed is a measured
\* figure on hosts whose brand string carries none
CpuReadings == {CpuInfo, [CpuInfo EXCEPT !.speed = 3]}

MemLow == [total |-> 8, free |-> 6, used |-> 2, active |-> 1, available |-> 7]

MemHigh == [total |-> 4, free |-> 1, used |-> 3, active |-> 2, available |-> 2]

MemResponses == {MemLow, MemHigh}

Loads == {10, 55, 90}

LoadResponses == { [currentLoad |-> l, avgLoad |-> 1] : l \in Loads }

\* what Promise.all([si.mem(), si.currentLoad(), si.time()]) can resolve to,
\* si.time() apart: the host is busy (low free memory) or not
FastResponses ==
    { r \in [mem : MemResponses, load : LoadResponses] :
        (r.mem = MemHigh) <=> (r.load.currentLoad > 50) }

NetResponses ==
    { << [iface |-> "eth0", rx_sec |-> 100, tx_sec |-> 40, rx_bytes |-> 7] >>,
      << [iface |-> "eth0", rx_sec |-> 300, tx_sec |-> 20, rx_bytes |-> 9],
         [iface |-> "lo", rx_sec |-> 5, tx_sec |-> 5, rx_bytes |-> 1] >> }

FsResponses ==
    { << [fs |-> "/dev/sdb1", type |-> "xfs", size |-> 200, used |-> 180,
          available |-> 20, use |-> 90, mount |-> "/data"],
         [fs |-> "/dev/sda1", type |-> "ext4", size |-> 100, used |-> 50,
          available |-> 50, use |-> 50, mount |-> "/"] >> }

\* si.time(): synchronous, read when updateFastMetrics builds its Promise.all
TimeReading == [uptime |-> osUptime]

----------------------------------------------------------------------------
(* The snapshot *)

EmptyObject == [f \in {} |-> 0]

DefaultMetrics ==
    [cpu |-> EmptyObject, memory |-> EmptyObject, network |-> <<>>, disk |-> <<>>,
     uptime |-> 0]

\* staticData = { cpu: { manufacturer, brand, speed, cores } }
StaticOf(cpu) ==
    [cpu |-> [manufacturer |-> cpu.manufacturer, brand |-> cpu.brand,
              speed |-> cpu.speed, cores |-> cpu.cores]]

\* what getStaticData returns when si.cpu() rejects
StaticFallback == [cpu |-> EmptyObject]

\* { ...staticInfo.cpu, load: load.currentLoad }
CpuFacet(staticInfo, load) == [load |-> load.currentLoad] @@ staticInfo.cpu

\* (mem.used / mem.total) * 100; the readings of MemResponses divide exactly
Percentage(used, total) == (used * 100) \div total

MemoryFacet(mem) ==
    [total |-> mem.total, free |-> mem.free, used |-> mem.used,
     active |-> mem.active, percentage |-> Percentage(mem.used, mem.total)]

NetworkFacet(networkStats) ==
    [i \in 1..Len(networkStats) |->
        [iface |-> networkStats[i].iface, rx_sec |-> networkStats[i].rx_sec,
         tx_sec |-> networkStats[i].tx_sec]]

DiskFacet(fsSize) ==
    [i \in 1..Len(fsSize) |->
        [fs |-> fsSize[i].fs, type |-> fsSize[i].type, size |-> fsSize[i].size,
         used |-> fsSize[i].used, available |-> fsSize[i].available,
         use |-> fsSize[i].use]]

\* fault: the memory object is patched in place, keeping the total it had
FastWriteTorn(m, staticInfo, resp, time) ==
    [m EXCEPT !.cpu = CpuFacet(staticInfo, resp.load),
              !.memory = IF "total" \in DOMAIN m.memory
                         THEN [MemoryFacet(resp.mem) EXCEPT !.total = m.memory.total]
                         ELSE MemoryFacet(resp.mem),
              !.uptime = time.uptime]

\* fault: the uptime is taken from a property si.time() does not have
FastWriteNoUptime(m, staticInfo, resp, time) ==
    [m EXCEPT !.cpu = CpuFacet(staticInfo, resp.load),
              !.memory = MemoryFacet(resp.mem),
              !.uptime = 0]

\* the three assignments of updateFastMetrics to latestMetrics
FastWrite(m, staticInfo, resp, time) ==
    [m EXCEPT !.cpu = CpuFacet(staticInfo, resp.load),
              !.memory = MemoryFacet(resp.mem),
              !.uptime = time.uptime]

----------------------------------------------------------------------------
(* Calls in flight *)

RemoveAt(s, i) == [j \in 1..(Len(s) - 1) |-> IF j < i THEN s[j] ELSE s[j + 1]]

\* An updateFastMetrics call in flight.  status: "pending" (awaiting
\* Promise.all) or "static" (awaiting si.cpu() inside getStaticData, with
\* the resolved readings in resp).  overtaken (history): a run issued later
\* has completed.
NewFastRun ==
    [status |-> "pending", time |-> TimeReading, resp |-> <<>>, overtaken |-> FALSE]

\* the runs issued before run i that are still in flight are now overtaken
Overtake(runs, i) ==
    [j \in 1..Len(runs) |-> IF j < i THEN [runs[j] EXCEPT !.overtaken = TRUE] ELSE runs[j]]

\* a turn of the event loop that is not the /api/history handler writes no reply
Silent == response' = <<>> /\ UNCHANGED clientVars

\* fault: the snapshot is emitted before the facets are assigned
EmitStale(recv, payload) ==
    [o \in Observers |->
        IF phase[o] = "connected" THEN Append(recv[o], latestMetrics) ELSE recv[o]]

\* fault: the event is emitted twice
EmitTwice(recv, payload) ==
    [o \in Observers |->
        IF phase[o] = "connected" THEN recv[o] \o <<payload, payload>> ELSE recv[o]]

\* io.emit('metrics', payload): one event to every connected socket
Emit(recv, payload) ==
    [o \in Observers |->
        IF phase[o] = "connected" THEN Append(recv[o], payload) ELSE recv[o]]

----------------------------------------------------------------------------
(* Initial state: the module has been loaded, startBackgroundTasks() has    *)
(* been called and is suspended in getStaticData on si.cpu(); the           *)
(* connection handler and the HTTP server are registered.                   *)

\* The dashboard before its first effect has run: useState gives the default
\* server list (nothing saved in localStorage), its first id, and null, false,
\* null and [] for socket, isConnected, metrics and history.
ClientInit ==
    /\ servers = <<[id |-> "default", name |-> "n1", url |-> "u1"]>>
    /\ activeServerId = "default"
    /\ sockets = <<>>
    /\ socket = 0
    /\ effectSocket = 0
    /\ isConnected = FALSE
    /\ metrics = <<>>
    /\ history = <<>>

StoreInit ==
    /\ now = 0
    /\ tz \in TzOffsets
    /\ db = <<>>
    /\ nextId = 1
    /\ response = <<>>

Init ==
    /\ bootPc = "static"
    /\ staticData = <<>>
    /\ latestMetrics = DefaultMetrics
    /\ fastRuns = <<>>
    /\ networkRuns = 0
    /\ diskRuns = 0
    /\ osUptime = 0
    /\ ticks = 0
    /\ lastFailed = FALSE
    /\ phase = [o \in Observers |-> "new"]
    /\ received = [o \in Observers |-> <<>>]
    /\ StoreInit
    /\ ClientInit

----------------------------------------------------------------------------
(* startBackgroundTasks *)

\* `await getStaticData()` resumes (si.cpu() resolved, ok, or rejected);
\* the timers are registered; updateDiskMetrics(), updateFastMetrics() and
\* updateNetworkMetrics() are called once each and suspend on their queries
BootResume(ok) ==
    /\ bootPc = "static"
    /\ bootPc' = "started"
    /\ staticData' = IF ok THEN <<StaticOf(CpuInfo)>> ELSE staticData
    /\ diskRuns' = diskRuns + 1
    /\ fastRuns' = Append(fastRuns, NewFastRun)
    /\ networkRuns' = networkRuns + 1
    /\ UNCHANGED <<latestMetrics, osUptime, ticks, lastFailed>>
    /\ UNCHANGED <<observerVars, storeVars>>
    /\ Silent

----------------------------------------------------------------------------
(* updateFastMetrics *)

\* fault: the tick is dropped while an earlier run is in flight
FastTickSkips ==
    /\ bootPc = "started"
    /\ ticks < MaxTicks
    /\ ticks' = ticks + 1
    /\ fastRuns' = IF fastRuns = <<>> THEN Append(fastRuns, NewFastRun) ELSE fastRuns
    /\ UNCHANGED <<bootPc, staticData, latestMetrics, networkRuns, diskRuns, osUptime,
                   lastFailed>>
    /\ UNCHANGED <<observerVars, storeVars>>
    /\ Silent

\* setInterval(updateFastMetrics, 1000) fires: the three queries are issued
FastTick ==
    /\ bootPc = "started"
    /\ ticks < MaxTicks
    /\ ticks' = ticks + 1
    /\ fastRuns' = Append(fastRuns, NewFastRun)
    /\ UNCHANGED <<bootPc, staticData, latestMetrics, networkRuns, diskRuns, osUptime,
                   lastFailed>>
    /\ UNCHANGED <<observerVars, storeVars>>
    /\ Silent

\* fault: a run that a later-issued run has overtaken drops its readings
FastFinishInIssueOrder(i, staticInfo, resp) ==
    /\ latestMetrics' = IF fastRuns[i].overtaken
                        THEN latestMetrics
                        ELSE FastWrite(latestMetrics, staticInfo, resp, fastRuns[i].time)
    /\ received' = Emit(received, latestMetrics')
    /\ fastRuns' = RemoveAt(Overtake(fastRuns, i), i)
    /\ lastFailed' = FALSE
    /\ UNCHANGED <<bootPc, networkRuns, diskRuns, osUptime, ticks, phase>>
    /\ UNCHANGED storeVars
    /\ Silent

\* fault: the facets are assigned and nothing is broadcast
FastFinishQuiet(i, staticInfo, resp) ==
    /\ latestMetrics' = FastWrite(latestMetrics, staticInfo, resp, fastRuns[i].time)
    /\ fastRuns' = RemoveAt(Overtake(fastRuns, i), i)
    /\ lastFailed' = FALSE
    /\ UNCHANGED <<bootPc, networkRuns, diskRuns, osUptime, ticks, observerVars>>
    /\ UNCHANGED storeVars
    /\ Silent

\* the tail of updateFastMetrics once staticInfo is known: the three facets
\* are assigned and the snapshot is broadcast, in one synchronous block
FastFinish(i, staticInfo, resp) ==
    /\ latestMetrics' = FastWrite(latestMetrics, staticInfo, resp, fastRuns[i].time)
    /\ received' = Emit(received, latestMetrics')
    /\ fastRuns' = RemoveAt(Overtake(fastRuns, i), i)
    /\ lastFailed' = FALSE
    /\ UNCHANGED <<bootPc, networkRuns, diskRuns, osUptime, ticks, phase>>
    /\ UNCHANGED storeVars
    /\ Silent

\* fault: the memory facet is assigned before `await getStaticData()`
FastResolveEarlyMemory(i, resp) ==
    /\ fastRuns[i].status = "pending"
    /\ IF staticData # <<>>
       THEN /\ FastFinish(i, staticData[1], resp)
            /\ UNCHANGED staticData
       ELSE /\ fastRuns' = [fastRuns EXCEPT ![i].status = "static", ![i].resp = <<resp>>]
            /\ latestMetrics' = [latestMetrics EXCEPT !.memory = MemoryFacet(resp.mem)]
            /\ UNCHANGED <<bootPc, staticData, networkRuns, diskRuns,
                           osUptime, ticks, lastFailed>>
            /\ UNCHANGED <<observerVars, storeVars>>
    /\ Silent

\* Promise.all resolved with resp and the run calls getStaticData(): with
\* staticData cached it goes on to write and broadcast; otherwise
\* getStaticData issues si.cpu() and the run is suspended again
FastResolve(i, resp) ==
    /\ fastRuns[i].status = "pending"
    /\ IF staticData # <<>>
       THEN /\ FastFinish(i, staticData[1], resp)
            /\ UNCHANGED staticData
       ELSE /\ fastRuns' = [fastRuns EXCEPT ![i].status = "static", ![i].resp = <<resp>>]
            /\ UNCHANGED <<bootPc, staticData, latestMetrics, networkRuns, diskRuns,
                           osUptime, ticks, lastFailed>>
            /\ UNCHANGED <<observerVars, storeVars>>
    /\ Silent

\* fault: the rejection is not caught and the process exits
FastRejectUnhandled(i) ==
    /\ fastRuns[i].status = "pending"
    /\ bootPc' = "exited"
    /\ fastRuns' = <<>>
    /\ networkRuns' = 0
    /\ diskRuns' = 0
    /\ lastFailed' = TRUE
    /\ UNCHANGED <<staticData, latestMetrics, osUptime, ticks>>
    /\ UNCHANGED <<observerVars, storeVars>>
    /\ Silent

\* Promise.all rejected: the catch block logs
FastReject(i) ==
    /\ fastRuns[i].status = "pending"
    /\ fastRuns' = RemoveAt(fastRuns, i)
    /\ lastFailed' = TRUE
    /\ UNCHANGED <<bootPc, staticData, latestMetrics, networkRuns, diskRuns, osUptime, ticks>>
    /\ UNCHANGED <<observerVars, storeVars>>
    /\ Silent

\* si.cpu() of getStaticData resolved inside a Fast run: the identity is
\* cached and returned, and the run writes and broadcasts
StaticResolve(i, cpu) ==
    /\ fastRuns[i].status = "static"
    /\ staticData' = <<StaticOf(cpu)>>
    /\ FastFinish(i, staticData'[1], fastRuns[i].resp[1])

\* si.cpu() of getStaticData rejected inside a Fast run: getStaticData logs
\* and returns { cpu: {} }, and the run writes and broadcasts
StaticReject(i) ==
    /\ fastRuns[i].status = "static"
    /\ UNCHANGED staticData
    /\ FastFinish(i, StaticFallback, fastRuns[i].resp[1])

----------------------------------------------------------------------------
(* updateNetworkMetrics: networkRuns counts the calls awaiting si.networkStats() *)

\* setInterval(updateNetworkMetrics, 1000) fires: si.networkStats() is issued
NetworkTick ==
    /\ bootPc = "started"
    /\ ticks < MaxTicks
    /\ ticks' = ticks + 1
    /\ networkRuns' = networkRuns + 1
    /\ UNCHANGED <<bootPc, staticData, latestMetrics, fastRuns, diskRuns, osUptime,
                   lastFailed>>
    /\ UNCHANGED <<observerVars, storeVars>>
    /\ Silent

\* fault: the Network run broadcasts the snapshot as the Fast run does
NetworkResolveEmits(networkStats) ==
    /\ networkRuns > 0
    /\ networkRuns' = networkRuns - 1
    /\ latestMetrics' = [latestMetrics EXCEPT !.network = NetworkFacet(networkStats)]
    /\ received' = Emit(received, latestMetrics')
    /\ lastFailed' = FALSE
    /\ UNCHANGED <<bootPc, staticData, fastRuns, diskRuns, osUptime, ticks, phase>>
    /\ UNCHANGED storeVars
    /\ Silent

\* si.networkStats() resolved: the network facet is replaced, nothing is emitted
NetworkResolve(networkStats) ==
    /\ networkRuns > 0
    /\ networkRuns' = networkRuns - 1
    /\ latestMetrics' = [latestMetrics EXCEPT !.network = NetworkFacet(networkStats)]
    /\ lastFailed' = FALSE
    /\ UNCHANGED <<bootPc, staticData, fastRuns, diskRuns, osUptime, ticks>>
    /\ UNCHANGED <<observerVars, storeVars>>
    /\ Silent

\* fault: the catch block clears the facet
NetworkRejectClears ==
    /\ networkRuns > 0
    /\ networkRuns' = networkRuns - 1
    /\ latestMetrics' = [latestMetrics EXCEPT !.network = <<>>]
    /\ lastFailed' = TRUE
    /\ UNCHANGED <<bootPc, staticData, fastRuns, diskRuns, osUptime, ticks>>
    /\ UNCHANGED <<observerVars, storeVars>>
    /\ Silent

\* si.networkStats() rejected: the catch block logs
NetworkReject ==
    /\ networkRuns > 0
    /\ networkRuns' = networkRuns - 1
    /\ lastFailed' = TRUE
    /\ UNCHANGED <<bootPc, staticData, latestMetrics, fastRuns, diskRuns, osUptime, ticks>>
    /\ UNCHANGED <<observerVars, storeVars>>
    /\ Silent

----------------------------------------------------------------------------
(* updateDiskMetrics: diskRuns counts the calls awaiting si.fsSize() *)

\* setInterval(updateDiskMetrics, 10000) fires: si.fsSize() is issued
DiskTick ==
    /\ bootPc = "started"
    /\ ticks < MaxTicks
    /\ ticks' = ticks + 1
    /\ diskRuns' = diskRuns + 1
    /\ UNCHANGED <<bootPc, staticData, latestMetrics, fastRuns, networkRuns, osUptime,
                   lastFailed>>
    /\ UNCHANGED <<observerVars, storeVars>>
    /\ Silent

\* fault: the snapshot is replaced by a new object that holds the disk facet
DiskResolveWhole(fsSize) ==
    /\ diskRuns > 0
    /\ diskRuns' = diskRuns - 1
    /\ latestMetrics' = [DefaultMetrics EXCEPT !.disk = DiskFacet(fsSize)]
    /\ lastFailed' = FALSE
    /\ UNCHANGED <<bootPc, staticData, fastRuns, networkRuns, osUptime, ticks>>
    /\ UNCHANGED <<observerVars, storeVars>>
    /\ Silent

\* si.fsSize() resolved: the disk facet is replaced
DiskResolve(fsSize) ==
    /\ diskRuns > 0
    /\ diskRuns' = diskRuns - 1
    /\ latestMetrics' = [latestMetrics EXCEPT !.disk = DiskFacet(fsSize)]
    /\ lastFailed' = FALSE
    /\ UNCHANGED <<bootPc, staticData, fastRuns, networkRuns, osUptime, ticks>>
    /\ UNCHANGED <<observerVars, storeVars>>
    /\ Silent

\* si.fsSize() rejected: the catch block logs
DiskReject ==
    /\ diskRuns > 0
    /\ diskRuns' = diskRuns - 1
    /\ lastFailed' = TRUE
    /\ UNCHANGED <<bootPc, staticData, latestMetrics, fastRuns, networkRuns, osUptime, ticks>>
    /\ UNCHANGED <<observerVars, storeVars>>
    /\ Silent

----------------------------------------------------------------------------
(* The host and the observers *)

\* a second passes on the host
UptimeTick ==
    /\ osUptime < MaxUptime
    /\ osUptime' = osUptime + 1
    /\ UNCHANGED <<ticks, bootPc, staticData, latestMetrics, fastRuns, networkRuns, diskRuns,
                   lastFailed>>
    /\ UNCHANGED <<observerVars, storeVars>>
    /\ Silent

\* fault: the connection handler emits nothing
ConnectionSilent(o) ==
    /\ phase[o] = "new"
    /\ phase' = [phase EXCEPT ![o] = "connected"]
    /\ UNCHANGED <<samplerVars, received, storeVars>>
    /\ Silent

\* io.on('connection'): socket.emit('metrics', latestMetrics)
Connection(o) ==
    /\ phase[o] = "new"
    /\ phase' = [phase EXCEPT ![o] = "connected"]
    /\ received' = [received EXCEPT ![o] = Append(received[o], latestMetrics)]
    /\ UNCHANGED <<samplerVars, storeVars>>
    /\ Silent

\* socket.on('disconnect'): the socket has left the namespace and is sent
\* nothing more; its log is dropped
Disconnect(o) ==
    /\ phase[o] = "connected"
    /\ phase' = [phase EXCEPT ![o] = "gone"]
    /\ received' = [received EXCEPT ![o] = <<>>]
    /\ UNCHANGED <<samplerVars, storeVars>>
    /\ Silent

\* the dashboard of observer o applies the events it was sent, setMetrics(data)
\* each time: what it shows is the last one, and the earlier ones are dropped
\* from its log
Render(o) ==
    /\ phase[o] = "connected"
    /\ Len(received[o]) > 1
    /\ received' = [received EXCEPT ![o] = <<received[o][Len(received[o])]>>]
    /\ UNCHANGED <<samplerVars, phase, storeVars>>
    /\ Silent

\* the interval timers go on firing for ever: once the runs in flight have
\* all settled and the dashboards have caught up, ticks counts the callbacks
\* anew
TimersRearm ==
    /\ bootPc = "started"
    /\ ticks > 0
    /\ fastRuns = <<>>
    /\ networkRuns = 0
    /\ diskRuns = 0
    /\ \A o \in Observers : Len(received[o]) <= 1
    /\ ticks' = 0
    /\ UNCHANGED <<bootPc, staticData, latestMetrics, fastRuns, networkRuns, diskRuns,
                   osUptime, lastFailed>>
    /\ UNCHANGED <<observerVars, storeVars>>
    /\ Silent

\* backend/index.js ends with startBackgroundTasks(), io.on('connection') and
\* server.listen(): it registers no listener for 'uncaughtException' or
\* 'unhandledRejection' on process.  (The index.js that install.sh writes
\* when it finds no backend directory does register both; that file is
\* another program, without connection handler, and is not this model.)
LastResortHandler == FALSE

\* io.on('connection') whose callback throws at its first statement, before
\* socket.emit: the callback has no try/catch, so the exception reaches the
\* event loop.  With a process-level listener the exception is logged and
\* the loop goes on; without one Node prints it and the process exits, which
\* drops every timer, every call in flight and every socket.
ConnectionThrows(o) ==
    /\ phase[o] = "new"
    /\ IF LastResortHandler
       THEN /\ phase' = [phase EXCEPT ![o] = "connected"]
            /\ UNCHANGED <<samplerVars, received>>
       ELSE /\ bootPc' = "exited"
            /\ fastRuns' = <<>>
            /\ networkRuns' = 0
            /\ diskRuns' = 0
            /\ phase' = [p \in Observers |-> "gone"]
            /\ received' = [p \in Observers |-> <<>>]
            /\ UNCHANGED <<staticData, latestMetrics, osUptime, ticks, lastFailed>>
    /\ UNCHANGED storeVars
    /\ Silent

----------------------------------------------------------------------------
(* The store:table metrics of history.db.  CURRENT_TIMESTAMP and          *)
(* datetime() yield 'YYYY-MM-DD HH:MM:SS' in UTC, which sqlite compares as *)
(* text; the order of such texts is the order of the seconds they denote,  *)
(* so a timestamp is a number of seconds.                                   *)

\* fault: a missing value is recorded as a "not ready" sentinel
OrSentinel(obj, field) == IF field \in DOMAIN obj /\ obj[field] # 0 THEN obj[field] ELSE -1

\* x || 0 for a property x of obj
OrZero(obj, field) == IF field \in DOMAIN obj /\ obj[field] # 0 THEN obj[field] ELSE 0

\* list.reduce((acc, curr) => acc + (curr[field] || 0), 0)
RECURSIVE SumOf(_, _)
SumOf(list, field) ==
    IF list = <<>> THEN 0
    ELSE SumOf(SubSeq(list, 1, Len(list) - 1), field) + OrZero(list[Len(list)], field)

\* latestMetrics.disk[0]?.use || 0
FirstDiskUse(disk) == IF Len(disk) >= 1 THEN OrZero(disk[1], "use") ELSE 0

\* fault: the rates of the first interface are recorded instead of the sums
HistoryValuesFirstIface(m) ==
    [cpu_load |-> OrZero(m.cpu, "load"),
     mem_percentage |-> OrZero(m.memory, "percentage"),
     net_rx |-> IF m.network = <<>> THEN 0 ELSE OrZero(m.network[1], "rx_sec"),
     net_tx |-> IF m.network = <<>> THEN 0 ELSE OrZero(m.network[1], "tx_sec"),
     disk_usage |-> FirstDiskUse(m.disk)]

\* the five values recordHistory binds to its INSERT
HistoryValues(m) ==
    [cpu_load |-> OrZero(m.cpu, "load"),
     mem_percentage |-> OrZero(m.memory, "percentage"),
     net_rx |-> SumOf(m.network, "rx_sec"),
     net_tx |-> SumOf(m.network, "tx_sec"),
     disk_usage |-> FirstDiskUse(m.disk)]

\* fault: INSERT OR REPLACE under the id of the newest row
InsertOrReplace(table, values) ==
    IF table = <<>>
    THEN <<[id |-> nextId, timestamp |-> now] @@ values>>
    ELSE [table EXCEPT ![Len(table)] = [id |-> table[Len(table)].id, timestamp |-> now] @@ values]

\* fault: the row becomes visible before its timestamp default is filled in
InsertRowTorn(table, values) ==
    Append(table, [id |-> nextId, timestamp |-> 0] @@ values)

\* INSERT INTO metrics (...) VALUES (...): id and timestamp take their defaults
InsertRow(table, values) ==
    Append(table, [id |-> nextId, timestamp |-> now] @@ values)

\* the seconds a modifier of datetime() adds
ModifierSeconds(modifier) ==
    CASE modifier = "-1 hour" -> -Hour
      [] modifier = "-6 hours" -> -(6 * Hour)
      [] modifier = "-24 hours" -> -(24 * Hour)
      [] modifier = "-7 days" -> -(7 * Day)

\* datetime('now', modifier)
DatetimeNow(modifier) == now + ModifierSeconds(modifier)

\* fault: the row exactly 7 days old is deleted too
DeleteOldOrEqual(table) ==
    SelectSeq(table, LAMBDA r : ~(r.timestamp <= DatetimeNow("-7 days")))

\* fault: the comparison is reversed and the new rows are deleted
DeleteNewer(table) ==
    SelectSeq(table, LAMBDA r : ~(r.timestamp > DatetimeNow("-7 days")))

\* fault: the horizon of the janitor is shorter than the widest query window
DeleteOldDay(table) == SelectSeq(table, LAMBDA r : ~(r.timestamp < DatetimeNow("-24 hours")))

\* DELETE FROM metrics WHERE timestamp < datetime('now', '-7 days')
DeleteOld(table) == SelectSeq(table, LAMBDA r : ~(r.timestamp < DatetimeNow("-7 days")))

\* fault: the comparison admits the row at the cutoff
WhereNewerOrEqual(table, modifier) ==
    SelectSeq(table, LAMBDA r : r.timestamp >= DatetimeNow(modifier))

\* WHERE timestamp > datetime('now', ?)
WhereNewer(table, modifier) ==
    SelectSeq(table, LAMBDA r : r.timestamp > DatetimeNow(modifier))

\* fault: ORDER BY timestamp DESC
RECURSIVE OrderByTimestampDesc(_)
OrderByTimestampDesc(rows) ==
    IF rows = <<>> THEN <<>>
    ELSE LET last == rows[Len(rows)]
             head == OrderByTimestampDesc(SubSeq(rows, 1, Len(rows) - 1))
             before == SelectSeq(head, LAMBDA r : r.timestamp >= last.timestamp)
             after == SelectSeq(head, LAMBDA r : r.timestamp < last.timestamp)
         IN  before \o <<last>> \o after

\* ORDER BY timestamp ASC
RECURSIVE OrderByTimestamp(_)
OrderByTimestamp(rows) ==
    IF rows = <<>> THEN <<>>
    ELSE LET last == rows[Len(rows)]
             head == OrderByTimestamp(SubSeq(rows, 1, Len(rows) - 1))
             before == SelectSeq(head, LAMBDA r : r.timestamp <= last.timestamp)
             after == SelectSeq(head, LAMBDA r : r.timestamp > last.timestamp)
         IN  before \o <<last>> \o after

\* strftime('%H:%M', datetime(timestamp, 'localtime')), as <<hour, minute>>
TimeLabel(timestamp) ==
    LET secondOfDay == (timestamp + tz) % Day
    IN  <<secondOfDay \div Hour, (secondOfDay % Hour) \div 60>>

\* the columns of the SELECT
ProjectRow(r) ==
    [time |-> TimeLabel(r.timestamp), cpu |-> r.cpu_load, mem |-> r.mem_percentage,
     rx |-> r.net_rx, tx |-> r.net_tx, disk |-> r.disk_usage]

\* the rows the SELECT of the handler reads, in the order it yields them
SelectHistory(modifier) == OrderByTimestamp(WhereNewer(db, modifier))

----------------------------------------------------------------------------
(* GET /api/history *)

Tokens == {"1h", "6h", "24h", "7d"}

\* req.query of the requests sent: no range, an empty one, the four tokens, another
Queries == {EmptyObject} \cup { [range |-> t] : t \in Tokens \cup {"", "30d"} }

\* req.query.range || '1h'
RangeOf(query) ==
    IF "range" \in DOMAIN query /\ query.range # "" THEN query.range ELSE "1h"

\* fault: the default branch of the switch takes the widest window
TimeFilterDefaultWeek(range) ==
    CASE range = "1h" -> "-1 hour"
      [] range = "6h" -> "-6 hours"
      [] range = "24h" -> "-24 hours"
      [] range = "7d" -> "-7 days"
      [] OTHER -> "-7 days"

\* fault: the branch of 24h takes the modifier of 1h
TimeFilterShortDay(range) ==
    CASE range = "1h" -> "-1 hour"
      [] range = "6h" -> "-6 hours"
      [] range = "24h" -> "-1 hour"
      [] range = "7d" -> "-7 days"
      [] OTHER -> "-1 hour"

\* the switch of the handler
TimeFilter(range) ==
    CASE range = "1h" -> "-1 hour"
      [] range = "6h" -> "-6 hours"
      [] range = "24h" -> "-24 hours"
      [] range = "7d" -> "-7 days"
      [] OTHER -> "-1 hour"

\* fault: when the statement throws part-way, the rows read so far are sent
HistoryReplyPartial(query, ok) ==
    LET rows == SelectHistory(TimeFilter(RangeOf(query)))
        sent == IF ok THEN rows ELSE SubSeq(rows, 1, Len(rows) - 1)
    IN  [query |-> query, status |-> 200,
         body |-> [k \in 1..Len(sent) |-> ProjectRow(sent[k])],
         rowids |-> [k \in 1..Len(sent) |-> sent[k].id]]

\* what the handler sends: res.json(rows), or status 500 when the statement
\* throws.  rowids (history): the rows read, by id, in order.
HistoryReply(query, ok) ==
    IF ok
    THEN LET rows == SelectHistory(TimeFilter(RangeOf(query)))
         IN  [query |-> query, status |-> 200,
              body |-> [k \in 1..Len(rows) |-> ProjectRow(rows[k])],
              rowids |-> [k \in 1..Len(rows) |-> rows[k].id]]
    ELSE [query |-> query, status |-> 500,
          body |-> [error |-> "Failed to fetch history"], rowids |-> <<>>]

\* fault: the handler deletes the rows it has read
GetHistoryConsumes(query, ok) ==
    /\ response' = <<HistoryReply(query, ok)>>
    /\ db' = SelectSeq(db, LAMBDA r : \A k \in 1..Len(response'[1].rowids) :
                                          response'[1].rowids[k] # r.id)
    /\ UNCHANGED <<samplerVars, observerVars, now, tz, nextId, clientVars>>

\* app.get('/api/history', ...): the handler runs to its end in one turn
GetHistory(query, ok) ==
    /\ response' = <<HistoryReply(query, ok)>>
    /\ UNCHANGED <<samplerVars, observerVars, storeVars, clientVars>>

----------------------------------------------------------------------------
(* recordHistory and cleanupHistory *)

\* The callbacks of an interval timer are at least its interval apart, and
\* the first one comes an interval after startBackgroundTasks registered
\* the timer, at time 0: when recordHistory runs, every row is at least
\* 60 s old.
RecorderDue ==
    /\ now >= RecordIntervalMs \div 1000
    /\ \A k \in 1..Len(db) : db[k].timestamp + RecordIntervalMs \div 1000 <= now

JanitorDue == now >= CleanupIntervalMs \div 1000

\* fault: a statement that throws has already written a row of zeros
RecordHistoryPartial(ok) ==
    /\ bootPc = "started"
    /\ RecorderDue
    /\ nextId <= MaxRows
    /\ db' = InsertRow(db, IF ok THEN HistoryValues(latestMetrics)
                                 ELSE HistoryValues(DefaultMetrics))
    /\ nextId' = nextId + 1
    /\ UNCHANGED <<samplerVars, observerVars, now, tz>>
    /\ Silent

\* setInterval(recordHistory, 60000) fires: one row is inserted, or the
\* statement throws and the catch block logs
RecordHistory(ok) ==
    /\ bootPc = "started"
    /\ RecorderDue
    /\ IF ok
       THEN /\ nextId <= MaxRows
            /\ db' = InsertRow(db, HistoryValues(latestMetrics))
            /\ nextId' = nextId + 1
       ELSE UNCHANGED <<db, nextId>>
    /\ UNCHANGED <<samplerVars, observerVars, now, tz>>
    /\ Silent

\* setInterval(cleanupHistory, 3600000) fires: the old rows are deleted, or
\* the statement throws and the catch block logs
CleanupHistory(ok) ==
    /\ bootPc = "started"
    /\ JanitorDue
    /\ db' = IF ok THEN DeleteOld(db) ELSE db
    /\ UNCHANGED <<samplerVars, observerVars, now, tz, nextId>>
    /\ Silent

\* time passes on the store's clock, up to instant t
Advance(t) ==
    /\ t > now
    /\ now' = t
    /\ UNCHANGED <<samplerVars, observerVars, tz, db, nextId>>
    /\ Silent

----------------------------------------------------------------------------
(* The index.js that install.sh writes from its heredoc.  It has the same   *)
(* table, query handler, Network, Disk and recorder code as                 *)
(* backend/index.js (their actions are used as they are), and differs in    *)
(* what follows.                                                            *)

\* the module has been loaded: the five setInterval calls have registered the
\* timers, and no sampler call has been made
EmbeddedInit ==
    /\ bootPc = "started"
    /\ staticData = <<>>
    /\ latestMetrics = DefaultMetrics
    /\ fastRuns = <<>>
    /\ networkRuns = 0
    /\ diskRuns = 0
    /\ osUptime = 0
    /\ ticks = 0
    /\ lastFailed = FALSE
    /\ phase = [o \in Observers |-> "new"]
    /\ received = [o \in Observers |-> <<>>]
    /\ StoreInit
    /\ ClientInit

\* Promise.all([si.cpu(), si.mem(), si.currentLoad(), si.time()]) resolved:
\* the identity is read in every run and never cached; the facets are
\* assigned and the snapshot is broadcast
EmbeddedFastResolve(i, cpu, resp) ==
    /\ fastRuns[i].status = "pending"
    /\ FastFinish(i, StaticOf(cpu), resp)
    /\ UNCHANGED staticData

\* an observer connects: the file registers no io.on('connection') callback,
\* so nothing is sent to the new socket
EmbeddedConnection(o) ==
    /\ phase[o] = "new"
    /\ phase' = [phase EXCEPT ![o] = "connected"]
    /\ UNCHANGED <<samplerVars, received, storeVars>>
    /\ Silent

\* the janitor timer fires: the DELETE runs inside the arrow function given
\* to setInterval, with no try/catch; the file of install.sh registers no
\* listener on process, so a DELETE that throws ends the process
EmbeddedCleanupHistory(ok) ==
    /\ bootPc = "started"
    /\ JanitorDue
    /\ IF ok
       THEN /\ db' = DeleteOld(db)
            /\ UNCHANGED <<samplerVars, observerVars>>
       ELSE /\ bootPc' = "exited"
            /\ fastRuns' = <<>>
            /\ networkRuns' = 0
            /\ diskRuns' = 0
            /\ phase' = [p \in Observers |-> "gone"]
            /\ received' = [p \in Observers |-> <<>>]
            /\ UNCHANGED <<db, staticData, latestMetrics, osUptime, ticks, lastFailed>>
    /\ UNCHANGED <<now, tz, nextId>>
    /\ Silent

----------------------------------------------------------------------------
(* The dashboard (App.tsx).  A click or an input event runs its handler,    *)
(* React renders with the new state and runs the effects whose dependencies *)
(* changed, all before the next event: one step.  A Socket object is a      *)
(* record of the url it was made for and of whether close() has not been    *)
(* called on it; the metrics a socket delivers are named by its index in    *)
(* sockets.  Math.random() ids are taken to be new.                         *)

ServerIds == {"default", "a", "b"}

ServerNames == {"n1", "n2"}

ServerUrls == {"u1", "u2"}

ServerIdsOf(list) == {list[i].id : i \in 1..Len(list)}

\* servers.find(s => s.id === activeServerId) || servers[0]
ActiveServerOf(list, id) ==
    IF id \in ServerIdsOf(list)
    THEN list[CHOOSE i \in 1..Len(list) :
                  /\ list[i].id = id
                  /\ \A j \in 1..(i - 1) : list[j].id # id]
    ELSE list[1]

activeServer == ActiveServerOf(servers, activeServerId)

\* socket.close(); closing twice, or closing null, changes nothing
Close(socks, k) ==
    IF k = 0 THEN socks ELSE [socks EXCEPT ![k].open = FALSE]

\* newHistory.slice(-30)
SliceLast(h, n) ==
    IF Len(h) <= n THEN h ELSE SubSeq(h, Len(h) - n + 1, Len(h))

\* fault: the socket of the state is left open
ConnectToSocketLeaks(socks, url) ==
    /\ sockets' = Append(socks, [url |-> url, open |-> TRUE])
    /\ socket' = Len(socks) + 1
    /\ isConnected' = FALSE
    /\ metrics' = <<>>
    /\ history' = <<>>

\* connectToSocket(url), called when the Socket objects are socks; the
\* callback is memoized on [socket], so the socket it closes is the one of
\* the state.  The new socket is the value it returns.
ConnectToSocket(socks, url) ==
    /\ sockets' = Append(Close(socks, socket), [url |-> url, open |-> TRUE])
    /\ socket' = Len(socks) + 1
    /\ isConnected' = FALSE
    /\ metrics' = <<>>
    /\ history' = <<>>

\* the effect on [activeServerId, activeServer.url]: the cleanup of its last
\* run closes the s of that run, then the body connects and keeps the new s
Effect(url) ==
    /\ Len(sockets) < MaxSockets
    /\ ConnectToSocket(Close(sockets, effectSocket), url)
    /\ effectSocket' = Len(sockets) + 1

\* the render after setServers(list) and setActiveServerId(id), and the
\* effect if one of its dependencies changed
Commit(list, id) ==
    /\ servers' = list
    /\ activeServerId' = id
    /\ IF \/ id # activeServerId
          \/ ActiveServerOf(list, id).url # activeServer.url
       THEN Effect(ActiveServerOf(list, id).url)
       ELSE UNCHANGED <<sockets, socket, effectSocket, isConnected, metrics, history>>

\* the first render: the effect runs for the first time
Mount ==
    /\ effectSocket = 0
    /\ Effect(activeServer.url)
    /\ UNCHANGED <<servers, activeServerId, backendVars>>

\* onClick of an entry of the server menu: setActiveServerId(server.id)
SelectServer(id) ==
    /\ effectSocket # 0
    /\ id \in ServerIdsOf(servers)
    /\ Commit(servers, id)
    /\ UNCHANGED backendVars

\* addServer, with newServer = {name, url} and id what Math.random() gave
AddServer(id, name, url) ==
    /\ effectSocket # 0
    /\ Len(servers) < MaxServers
    /\ id \notin ServerIdsOf(servers)
    /\ name # "" /\ url # ""
    /\ Commit(Append(servers, [id |-> id, name |-> name, url |-> url]), id)
    /\ UNCHANGED backendVars

\* fault: the selection is left as it is
DeleteServerKeepsActive(id) ==
    /\ effectSocket # 0
    /\ Len(servers) > 1
    /\ Commit(SelectSeq(servers, LAMBDA x : x.id # id), activeServerId)
    /\ UNCHANGED backendVars

\* deleteServer(id); with one server left it does nothing
DeleteServer(id) ==
    /\ effectSocket # 0
    /\ Len(servers) > 1
    /\ LET filtered == SelectSeq(servers, LAMBDA x : x.id # id)
       IN  Commit(filtered, IF activeServerId = id THEN filtered[1].id
                                                  ELSE activeServerId)
    /\ UNCHANGED backendVars

\* { ...s, ...updates }
Merge(server, updates) ==
    [f \in DOMAIN server |-> IF f \in DOMAIN updates THEN updates[f] ELSE server[f]]

\* updateActiveServer(updates), from the name input and from the url input
UpdateActiveServer(updates) ==
    /\ effectSocket # 0
    /\ Commit([i \in 1..Len(servers) |->
                  IF servers[i].id = activeServerId THEN Merge(servers[i], updates)
                                                    ELSE servers[i]],
              activeServerId)
    /\ UNCHANGED backendVars

\* onClick of the retry button, which is shown while !metrics && !isConnected
Retry ==
    /\ effectSocket # 0
    /\ metrics = <<>>
    /\ ~isConnected
    /\ Len(sockets) < MaxSockets
    /\ ConnectToSocket(sockets, activeServer.url)
    /\ UNCHANGED <<servers, activeServerId, effectSocket, backendVars>>

\* newSocket.on('connect', ...): a closed socket has no events
OnConnect(k) ==
    /\ k \in 1..Len(sockets)
    /\ sockets[k].open
    /\ isConnected' = TRUE
    /\ UNCHANGED <<servers, activeServerId, sockets, socket, effectSocket, metrics,
                   history, backendVars>>

\* newSocket.on('metrics', ...): a point is added if the history is empty or
\* the wall clock shows another second than at the last point
OnMetrics(k, newTime) ==
    /\ k \in 1..Len(sockets)
    /\ sockets[k].open
    /\ metrics' = <<k>>
    /\ IF history = <<>> \/ newTime
       THEN /\ Len(history) < MaxEvents
            /\ history' = SliceLast(Append(history, k), 30)
       ELSE history' = history
    /\ UNCHANGED <<servers, activeServerId, sockets, socket, effectSocket, isConnected,
                   backendVars>>

\* newSocket.on('disconnect', ...) and newSocket.on('connect_error', ...)
OnDisconnect(k) ==
    /\ k \in 1..Len(sockets)
    /\ sockets[k].open
    /\ isConnected' = FALSE
    /\ UNCHANGED <<servers, activeServerId, sockets, socket, effectSocket, metrics,
                   history, backendVars>>

----------------------------------------------------------------------------
(* Specifications *)

\* a turn of the event loop that runs sampler code
SamplerStep ==
    \/ \E ok \in BOOLEAN : BootResume(ok)
    \/ FastTick
    \/ \E i \in 1..Len(fastRuns), resp \in FastResponses : FastResolve(i, resp)
    \/ \E i \in 1..Len(fastRuns) : FastReject(i)
    \/ \E i \in 1..Len(fastRuns) : StaticResolve(i, CpuInfo)
    \/ \E i \in 1..Len(fastRuns) : StaticReject(i)
    \/ NetworkTick
    \/ \E networkStats \in NetResponses : NetworkResolve(networkStats)
    \/ NetworkReject
    \/ DiskTick
    \/ \E fsSize \in FsResponses : DiskResolve(fsSize)
    \/ DiskReject

\* the samplers on a host whose clock advances, with no observer connecting
Next ==
    \/ SamplerStep
    \/ UptimeTick

Spec == Init /\ [][Next]_vars

\* the samplers and the push channel, within one second of host uptime
PushNext ==
    \/ SamplerStep
    \/ \E o \in Observers : Connection(o)
    \/ \E o \in Observers : Disconnect(o)

PushSpec == Init /\ [][PushNext]_vars

\* A snapshot the samplers have filled
FilledMetrics ==
    [cpu |-> CpuFacet(StaticOf(CpuInfo), CHOOSE l \in LoadResponses : l.currentLoad = 55),
     memory |-> MemoryFacet(MemHigh),
     network |-> NetworkFacet(CHOOSE n \in NetResponses : Len(n) = 2),
     disk |-> DiskFacet(CHOOSE f \in FsResponses : Len(f) = 2),
     uptime |-> 0]

\* The history side starts when startBackgroundTasks has registered the
\* timers and no sampler run is in flight; the snapshot is still the default
\* one or has been filled.
HistoryInit ==
    /\ bootPc = "started"
    /\ staticData = <<StaticOf(CpuInfo)>>
    /\ latestMetrics \in {DefaultMetrics, FilledMetrics}
    /\ fastRuns = <<>>
    /\ networkRuns = 0
    /\ diskRuns = 0
    /\ osUptime = 0
    /\ ticks = 0
    /\ lastFailed = FALSE
    /\ phase = [o \in Observers |-> "new"]
    /\ received = [o \in Observers |-> <<>>]
    /\ ClientInit
    /\ now = 0
    /\ tz \in TzOffsets
    /\ db = <<>>
    /\ nextId = 1
    /\ response = <<>>

\* the recorder, the janitor and the query handler over days of store time
HistoryNext ==
    \/ \E t \in Instants : Advance(t)
    \/ \E ok \in BOOLEAN : RecordHistory(ok)
    \/ \E ok \in BOOLEAN : CleanupHistory(ok)
    \/ \E query \in Queries, ok \in BOOLEAN : GetHistory(query, ok)

HistorySpec == HistoryInit /\ [][HistoryNext]_vars

\* time passes between two requests of a client that keeps the reply it got
Elapse(t) ==
    /\ t > now
    /\ now' = t
    /\ UNCHANGED <<samplerVars, observerVars, tz, db, nextId, response, clientVars>>

\* a client that repeats its queries while time passes; response is here the
\* reply last sent since the store was last written
RepeatNext ==
    \/ \E t \in Instants : Elapse(t)
    \/ \E ok \in BOOLEAN : RecordHistory(ok)
    \/ \E ok \in BOOLEAN : CleanupHistory(ok)
    \/ \E token \in Tokens : GetHistory([range |-> token], TRUE)

RepeatSpec == HistoryInit /\ [][RepeatNext]_vars

\* a turn of the event loop that resumes startBackgroundTasks or one of the
\* three sampler runs it issues
StartupStep ==
    \/ \E ok \in BOOLEAN : BootResume(ok)
    \/ \E i \in 1..Len(fastRuns), resp \in FastResponses : FastResolve(i, resp)
    \/ \E i \in 1..Len(fastRuns) : FastReject(i)
    \/ \E i \in 1..Len(fastRuns) : StaticResolve(i, CpuInfo)
    \/ \E i \in 1..Len(fastRuns) : StaticReject(i)
    \/ \E networkStats \in NetResponses : NetworkResolve(networkStats)
    \/ NetworkReject
    \/ \E fsSize \in FsResponses : DiskResolve(fsSize)
    \/ DiskReject

\* the first two recorder ticks, and an instant at which the row of the
\* first tick is older than 7 days and the row of the second is not
SystemInstants ==
    { RecordIntervalMs \div 1000, 2 * (RecordIntervalMs \div 1000),
      7 * Day + RecordIntervalMs \div 1000 + 1 }

\* every component at once: the process from its start, with the sampler
\* runs of startBackgroundTasks (however long they take), an observer that
\* connects, the recorder, the janitor and a 7d query
SystemNext ==
    \/ StartupStep
    \/ Connection("o1")
    \/ \E t \in SystemInstants : Advance(t)
    \/ \E ok \in BOOLEAN : RecordHistory(ok)
    \/ \E ok \in BOOLEAN : CleanupHistory(ok)
    \/ \E ok \in BOOLEAN : GetHistory([range |-> "7d"], ok)

SystemSpec == Init /\ [][SystemNext]_vars

\* the samplers and an observer whose connection callback may throw; a
\* process that has exited has no timer, no call in flight and no socket
\* left, so that none of these steps is enabled
FaultNext ==
    \/ SamplerStep
    \/ Connection("o1")
    \/ ConnectionThrows("o1")

FaultSpec == Init /\ [][FaultNext]_vars

\* startBackgroundTasks and the Fast runs, with the readings si.cpu() can
\* give to the calls of getStaticData
StaticNext ==
    \/ \E ok \in BOOLEAN : BootResume(ok)
    \/ FastTick
    \/ \E i \in 1..Len(fastRuns), resp \in FastResponses : FastResolve(i, resp)
    \/ \E i \in 1..Len(fastRuns) : FastReject(i)
    \/ \E i \in 1..Len(fastRuns), cpu \in CpuReadings : StaticResolve(i, cpu)
    \/ \E i \in 1..Len(fastRuns) : StaticReject(i)

StaticSpec == Init /\ [][StaticNext]_vars

\* the Fast runs on a host whose clock advances, an observer that connects,
\* and the recorder at its first two ticks
FastNext ==
    \/ \E ok \in BOOLEAN : BootResume(ok)
    \/ FastTick
    \/ \E i \in 1..Len(fastRuns), resp \in FastResponses : FastResolve(i, resp)
    \/ \E i \in 1..Len(fastRuns) : FastReject(i)
    \/ \E i \in 1..Len(fastRuns) : StaticResolve(i, CpuInfo)
    \/ \E i \in 1..Len(fastRuns) : StaticReject(i)
    \/ UptimeTick
    \/ Connection("o1")
    \/ \E t \in {RecordIntervalMs \div 1000, 2 * (RecordIntervalMs \div 1000)} : Advance(t)
    \/ \E ok \in BOOLEAN : RecordHistory(ok)

FastSpec == Init /\ [][FastNext]_vars

\* the samplers running for ever, and an observer that connects and stays
DeliveryNext ==
    \/ SamplerStep
    \/ Connection("o1")
    \/ Render("o1")
    \/ TimersRearm

\* the timers keep firing, every provider call of the Network and Disk runs
\* and of getStaticData settles, and Fast runs keep resolving
DeliveryFairness ==
    /\ WF_vars(\E ok \in BOOLEAN : BootResume(ok))
    /\ SF_vars(FastTick)
    /\ WF_vars(TimersRearm)
    /\ WF_vars(Render("o1"))
    /\ SF_vars(\E i \in 1..Len(fastRuns), resp \in FastResponses : FastResolve(i, resp))
    /\ WF_vars(\E i \in 1..Len(fastRuns) : StaticResolve(i, CpuInfo) \/ StaticReject(i))
    /\ WF_vars(NetworkReject \/ \E networkStats \in NetResponses : NetworkResolve(networkStats))
    /\ WF_vars(DiskReject \/ \E fsSize \in FsResponses : DiskResolve(fsSize))

DeliverySpec == Init /\ [][DeliveryNext]_vars /\ DeliveryFairness

\* the program install.sh deploys: its samplers, an observer that connects,
\* and the recorder, the janitor and a query an hour after the start
EmbeddedNext ==
    \/ FastTick
    \/ \E i \in 1..Len(fastRuns), resp \in FastResponses : EmbeddedFastResolve(i, CpuInfo, resp)
    \/ \E i \in 1..Len(fastRuns) : FastReject(i)
    \/ NetworkTick
    \/ \E networkStats \in NetResponses : NetworkResolve(networkStats)
    \/ NetworkReject
    \/ DiskTick
    \/ \E fsSize \in FsResponses : DiskResolve(fsSize)
    \/ DiskReject
    \/ EmbeddedConnection("o1")
    \/ Advance(CleanupIntervalMs \div 1000)
    \/ \E ok \in BOOLEAN : RecordHistory(ok)
    \/ \E ok \in BOOLEAN : EmbeddedCleanupHistory(ok)
    \/ \E ok \in BOOLEAN : GetHistory([range |-> "7d"], ok)

EmbeddedSpec == EmbeddedInit /\ [][EmbeddedNext]_vars

\* the samplers on a host whose clock advances, and an observer that connects
OverlapNext ==
    \/ SamplerStep
    \/ UptimeTick
    \/ Connection("o1")

OverlapSpec == Init /\ [][OverlapNext]_vars

\* The dashboard alone: the backend it talks to is what delivers the events.
ClientNext ==
    \/ Mount
    \/ \E id \in ServerIds : SelectServer(id)
    \/ \E id \in ServerIds, name \in ServerNames \cup {""}, url \in ServerUrls \cup {""} :
           AddServer(id, name, url)
    \/ \E id \in ServerIds : DeleteServer(id)
    \/ \E name \in ServerNames : UpdateActiveServer([name |-> name])
    \/ \E url \in ServerUrls : UpdateActiveServer([url |-> url])
    \/ Retry
    \/ \E k \in 1..MaxSockets : OnConnect(k)
    \/ \E k \in 1..MaxSockets, newTime \in BOOLEAN : OnMetrics(k, newTime)
    \/ \E k \in 1..MaxSockets : OnDisconnect(k)

ClientSpec == Init /\ [][ClientNext]_vars

----------------------------------------------------------------------------
(* Claims about the snapshot and the push channel *)

\* the steps in which a run of a task ends, well or in its catch block
FastSucceeds == Len(fastRuns') < Len(fastRuns) /\ ~lastFailed'
FastFails == Len(fastRuns') < Len(fastRuns) /\ lastFailed'
NetworkFails == networkRuns' < networkRuns /\ lastFailed'
DiskFails == diskRuns' < diskRuns /\ lastFailed'

WholeMemory(mem) ==
    [total |-> mem.total, free |-> mem.free, used |-> mem.used, active |-> mem.active,
     percentage |-> (mem.used * 100) \div mem.total]

WholeCpu(load) ==
    { [load |-> load.currentLoad],
      [load |-> load.currentLoad, manufacturer |-> CpuInfo.manufacturer,
       brand |-> CpuInfo.brand, speed |-> CpuInfo.speed, cores |-> CpuInfo.cores] }

WholeNetwork(stats) ==
    [i \in 1..Len(stats) |->
        [iface |-> stats[i].iface, rx_sec |-> stats[i].rx_sec, tx_sec |-> stats[i].tx_sec]]

WholeDisk(fs) ==
    [i \in 1..Len(fs) |->
        [fs |-> fs[i].fs, type |-> fs[i].type, size |-> fs[i].size, used |-> fs[i].used,
         available |-> fs[i].available, use |-> fs[i].use]]

\* C1: in every reachable state each facet of latestMetrics is its default
\* or the value built from one provider response; the five memory fields
\* all come from the same si.mem() result.
C1_FacetsWhole ==
    /\ \/ latestMetrics.memory = EmptyObject
       \/ \E mem \in MemResponses : latestMetrics.memory = WholeMemory(mem)
    /\ \/ latestMetrics.cpu = EmptyObject
       \/ \E load \in LoadResponses : latestMetrics.cpu \in WholeCpu(load)
    /\ \/ latestMetrics.network = <<>>
       \/ \E stats \in NetResponses : latestMetrics.network = WholeNetwork(stats)
    /\ \/ latestMetrics.disk = <<>>
       \/ \E fs \in FsResponses : latestMetrics.disk = WholeDisk(fs)
    /\ latestMetrics.uptime \in 0..osUptime

\* every facet is populated, the Fast run that wrote memory overlapped with
\* one issued before it that is still in flight, and so is a Network run
C1_Witness ==
    /\ latestMetrics.memory = WholeMemory(MemHigh)
    /\ latestMetrics.network # <<>>
    /\ latestMetrics.disk # <<>>
    /\ \E i \in 1..Len(fastRuns) : fastRuns[i].overtaken
    /\ networkRuns > 0

\* C2: a Fast run that completes sends exactly one event to each observer
\* connected at that instant and none to the others; the payload is the whole
\* snapshot after the run's assignments, whose network and disk facets are
\* those of the last Network and Disk updates.
C2_BroadcastWhole ==
    [][FastSucceeds =>
        /\ \A o \in Observers :
              received'[o] = IF phase[o] = "connected"
                             THEN Append(received[o], latestMetrics')
                             ELSE received[o]
        /\ DOMAIN latestMetrics' = {"cpu", "memory", "network", "disk", "uptime"}
        /\ "load" \in DOMAIN latestMetrics'.cpu
        /\ "total" \in DOMAIN latestMetrics'.memory
        /\ latestMetrics'.network = latestMetrics.network
        /\ latestMetrics'.disk = latestMetrics.disk]_vars

\* one observer is connected and has just received a broadcast that carries
\* network and disk entries; the other one is not connected and has nothing
C2_Witness ==
    /\ phase["o1"] = "connected"
    /\ phase["o2"] # "connected"
    /\ received["o2"] = <<>>
    /\ Len(received["o1"]) >= 2
    /\ received["o1"][Len(received["o1"])] = latestMetrics
    /\ received["o1"][Len(received["o1"])] # received["o1"][Len(received["o1"]) - 1]
    /\ latestMetrics.network # <<>>
    /\ latestMetrics.disk # <<>>
    /\ ~lastFailed

\* C3: an observer has received nothing before it connects; connecting
\* delivers exactly one event, the snapshot as it stands then, so that event
\* precedes every broadcast the observer receives.
C3_FirstEventOnConnect ==
    /\ [](\A o \in Observers :
            /\ phase[o] = "new" => received[o] = <<>>
            /\ phase[o] = "connected" => Len(received[o]) >= 1)
    /\ [][\A o \in Observers :
            (phase[o] = "new" /\ phase'[o] = "connected")
                => received'[o] = <<latestMetrics>> /\ latestMetrics' = latestMetrics]_vars

\* an observer that connected after a Fast run had completed, and has since
\* received a broadcast
C3_Witness ==
    \E o \in Observers :
        /\ phase[o] = "connected"
        /\ Len(received[o]) = 2
        /\ received[o][1].cpu # EmptyObject
        /\ received[o][2] # received[o][1]

LoadsOf(events) == [k \in 1..Len(events) |-> events[k].cpu.load]

\* C4 as stated: an observer that connected before any Fast run completed
\* (its first event has the empty cpu) was sent the default snapshot.
C4_FirstEventDefault ==
    \A o \in Observers :
        (phase[o] = "connected" /\ received[o][1].cpu = EmptyObject)
            => received[o][1] = DefaultMetrics

\* C4, amended: the first event of an observer that connected before any
\* Fast run completed has the empty cpu, the empty memory and uptime 0 (its
\* network and disk are what the Network and Disk runs have written by
\* then); from then on each Fast run that completes appends exactly one
\* event, carrying that run's cpu load, to the observer's events, and no
\* other step changes them.
C4_EventsInCompletionOrder ==
    /\ [](\A o \in Observers :
            (phase[o] = "connected" /\ received[o][1].cpu = EmptyObject)
                => /\ received[o][1].memory = EmptyObject
                   /\ received[o][1].uptime = 0
                   /\ \A k \in 2..Len(received[o]) : "load" \in DOMAIN received[o][k].cpu)
    /\ [][\A o \in Observers :
            (phase[o] = "connected" /\ phase'[o] = "connected")
                => IF FastSucceeds
                   THEN /\ Len(received'[o]) = Len(received[o]) + 1
                        /\ SubSeq(received'[o], 1, Len(received[o])) = received[o]
                        /\ received'[o][Len(received'[o])].cpu.load = latestMetrics'.cpu.load
                   ELSE received'[o] = received[o]]_vars

\* the observer got the default snapshot, then the loads 10, 55, 90
C4_Witness ==
    \E o \in Observers :
        /\ phase[o] = "connected"
        /\ Len(received[o]) = 4
        /\ received[o][1] = DefaultMetrics
        /\ LoadsOf(Tail(received[o])) = <<10, 55, 90>>

\* C5 as stated: the uptime of the snapshot never decreases.
C5_UptimeMonotone == [][latestMetrics'.uptime >= latestMetrics.uptime]_vars

\* C5, amended: only a Fast run that completes changes the uptime of the
\* snapshot, to the reading that run took when it was issued; the uptime
\* decreases only when that run was issued before a run that has already
\* completed.
C5_UptimeMonotoneInIssueOrder ==
    [][IF FastSucceeds
       THEN \E i \in 1..Len(fastRuns) :
               /\ fastRuns[i].time.uptime = latestMetrics'.uptime
               /\ latestMetrics'.uptime < latestMetrics.uptime => fastRuns[i].overtaken
       ELSE latestMetrics'.uptime = latestMetrics.uptime]_vars

\* a later run has written uptime 1 while an earlier run, issued at uptime
\* 0, is still in flight
C5_Witness ==
    /\ latestMetrics.uptime = 1
    /\ \E i \in 1..Len(fastRuns) : fastRuns[i].overtaken /\ fastRuns[i].time.uptime = 0

\* C6: a run that ends in its catch block leaves the snapshot as it was: a
\* failed Fast run leaves cpu, memory and uptime, a failed Network run
\* network, a failed Disk run disk; no populated facet becomes empty.
C6_FailureKeepsFacets ==
    [][/\ FastFails => /\ latestMetrics'.cpu = latestMetrics.cpu
                       /\ latestMetrics'.memory = latestMetrics.memory
                       /\ latestMetrics'.uptime = latestMetrics.uptime
       /\ NetworkFails => latestMetrics'.network = latestMetrics.network
       /\ DiskFails => latestMetrics'.disk = latestMetrics.disk
       /\ (FastFails \/ NetworkFails \/ DiskFails) => latestMetrics' = latestMetrics]_vars

\* a run has just failed with every facet populated
C6_Witness ==
    /\ lastFailed
    /\ latestMetrics.cpu # EmptyObject
    /\ latestMetrics.network # <<>>
    /\ latestMetrics.disk # <<>>
    /\ latestMetrics.uptime > 0

\* C7 as stated: while a provider call is outstanding, the startup si.cpu()
\* included, the timers of the three samplers keep firing.
C7_StallIsolated ==
    ticks < MaxTicks => ENABLED FastTick /\ ENABLED NetworkTick /\ ENABLED DiskTick

----------------------------------------------------------------------------
(* Claims about the history query *)

\* the lookback window of a range token, in seconds
WindowOf(token) ==
    CASE token = "1h" -> Hour
      [] token = "6h" -> 6 * Hour
      [] token = "24h" -> 24 * Hour
      [] token = "7d" -> 7 * Day

\* the reply of this turn answers a query that names one of the four tokens
AnsweredToken(token) ==
    /\ response # <<>>
    /\ response[1].status = 200
    /\ response[1].query = [range |-> token]

RowOf(id) == db[CHOOSE k \in 1..Len(db) : db[k].id = id]

IdsIn(reply) == { reply.rowids[k] : k \in 1..Len(reply.rowids) }

\* C8: a query with token 1h, 6h, 24h or 7d returns exactly the rows whose
\* timestamp is greater than now minus the window, each once, in ascending
\* order of timestamp.
C8_QueryWindow ==
    \A token \in Tokens :
        AnsweredToken(token) =>
            LET reply == response[1]
                newer == { k \in 1..Len(db) : db[k].timestamp > now - WindowOf(token) }
            IN  /\ IdsIn(reply) = { db[k].id : k \in newer }
                /\ Len(reply.rowids) = Cardinality(newer)
                /\ Len(reply.body) = Len(reply.rowids)
                /\ \A j, k \in 1..Len(reply.rowids) :
                      j < k => RowOf(reply.rowids[j]).timestamp < RowOf(reply.rowids[k]).timestamp
                /\ \A k \in 1..Len(reply.rowids) :
                      LET row == RowOf(reply.rowids[k])
                      IN  /\ reply.body[k].cpu = row.cpu_load
                          /\ reply.body[k].mem = row.mem_percentage
                          /\ reply.body[k].rx = row.net_rx
                          /\ reply.body[k].tx = row.net_tx
                          /\ reply.body[k].disk = row.disk_usage

\* rows 8 d, 25 h, 2 h and 30 min old are stored, and a 7d query has
\* returned the last three, oldest first
C8_Witness ==
    /\ Len(db) = 4
    /\ [k \in 1..4 |-> now - db[k].timestamp] = <<8 * Day, 25 * Hour, 2 * Hour, Hour \div 2>>
    /\ AnsweredToken("7d")
    /\ response[1].rowids = <<db[2].id, db[3].id, db[4].id>>
    /\ Len(response[1].body) = 3

\* C9: for every range token, a row whose timestamp is exactly now minus the
\* window is not returned, and a row one second younger is.
C9_Boundary ==
    \A token \in Tokens :
        AnsweredToken(token) =>
            \A k \in 1..Len(db) :
                /\ db[k].timestamp = now - WindowOf(token) => db[k].id \notin IdsIn(response[1])
                /\ db[k].timestamp = now - WindowOf(token) + 1 => db[k].id \in IdsIn(response[1])

\* a query has left out a row exactly at its cutoff and returned a younger one
C9_Witness ==
    \E token \in Tokens :
        /\ AnsweredToken(token)
        /\ \E k \in 1..Len(db) :
              db[k].timestamp = now - WindowOf(token) /\ db[k].id \notin IdsIn(response[1])
        /\ response[1].rowids # <<>>

\* one second later the same row would be inside the window
C9_WitnessInside ==
    \E token \in Tokens :
        /\ AnsweredToken(token)
        /\ \E k \in 1..Len(db) :
              db[k].timestamp = now - WindowOf(token) + 1 /\ db[k].id \in IdsIn(response[1])

\* C10: a query with no range, an empty range or an unknown token gets the
\* reply that a query with range 1h gets from the same store at the same
\* instant.
C10_DefaultRange ==
    (response # <<>> /\ response[1].query \notin { [range |-> t] : t \in Tokens }) =>
        LET reply == response[1]
            explicit == HistoryReply([range |-> "1h"], reply.status = 200)
        IN  /\ reply.status = explicit.status
            /\ reply.body = explicit.body
            /\ reply.rowids = explicit.rowids

\* a query with an unknown token has returned the row of the last hour and
\* not the older ones
C10_Witness ==
    /\ response # <<>>
    /\ response[1].query = [range |-> "30d"]
    /\ response[1].status = 200
    /\ Len(response[1].body) = 1
    /\ Len(db) >= 3
    /\ \E k \in 1..Len(db) : db[k].timestamp > now - 6 * Hour /\ db[k].id \notin IdsIn(response[1])

----------------------------------------------------------------------------
(* Claims about repeated queries, the recorder and the janitor *)

\* the ids of reply's rows that are newer than the cutoff of token at instant t
StillNewer(reply, token, t) ==
    SelectSeq(reply.rowids, LAMBDA id : RowOf(id).timestamp > t - WindowOf(token))

\* a query is answered (a step of the handler: no time passes in it) while
\* the client holds the reply to an earlier query with the same token, and
\* the store has not been written in between
Repeated(token) ==
    /\ now' = now
    /\ response # <<>>
    /\ response' # <<>>
    /\ response[1].query = [range |-> token]
    /\ response'[1].query = [range |-> token]
    /\ response[1].status = 200
    /\ response'[1].status = 200

\* C11 as stated: with no write to the store between them, two queries with
\* the same token get the same reply, whatever time passes between them.
C11_SameReplyOverTime ==
    [][\A token \in Tokens : Repeated(token) => response' = response]_vars

\* C11, amended: with no write to the store between them, the later of two
\* queries with the same token returns those rows of the earlier reply that
\* are still newer than its own cutoff, in the same order and with the same
\* values; the replies are identical when no row has crossed the cutoff.
C11_SameReplyWithinWindow ==
    [][\A token \in Tokens :
         Repeated(token) =>
            \A kept \in {StillNewer(response[1], token, now')} :
                /\ response'[1].rowids = kept
                /\ Len(response'[1].body) = Len(kept)
                /\ \A k \in 1..Len(kept) :
                      \E j \in 1..Len(response[1].rowids) :
                          /\ response[1].rowids[j] = kept[k]
                          /\ response[1].body[j] = response'[1].body[k]
                /\ kept = response[1].rowids => response' = response]_vars

\* the client holds a reply with two rows, one of which has crossed the
\* cutoff since, while the other has not
C11_Witness ==
    \E token \in Tokens :
        /\ AnsweredToken(token)
        /\ Len(response[1].rowids) = 2
        /\ Len(StillNewer(response[1], token, now)) = 1

\* C12: a step that answers a history query, with status 200 or 500 and for
\* any range, leaves the rows of the store, the id counter and the snapshot
\* as they were.
C12_QueryReadOnly ==
    [][(response' # <<>> /\ now' = now) =>
        /\ db' = db
        /\ nextId' = nextId
        /\ latestMetrics' = latestMetrics]_vars

\* a query has been answered with rows while the store holds rows outside
\* its window as well and the snapshot is populated
C12_Witness ==
    /\ response # <<>>
    /\ response[1].status = 200
    /\ Len(response[1].rowids) >= 1
    /\ Len(db) > Len(response[1].rowids)
    /\ latestMetrics # DefaultMetrics

\* the window a query is answered with
EffectiveWindow(query) ==
    IF query \in { [range |-> t] : t \in Tokens } THEN WindowOf(query.range) ELSE Hour

\* C13: a reply is either status 500 with the body {error: ...} and no row,
\* or status 200 with every row of the window; there is no partial reply.
C13_ErrorOrComplete ==
    response # <<>> =>
        LET reply == response[1]
            newer == { k \in 1..Len(db) : db[k].timestamp > now - EffectiveWindow(reply.query) }
        IN  \/ /\ reply.status = 500
               /\ DOMAIN reply.body = {"error"}
               /\ reply.body.error = "Failed to fetch history"
               /\ reply.rowids = <<>>
            \/ /\ reply.status = 200
               /\ DOMAIN reply.body = 1..Cardinality(newer)
               /\ IdsIn(reply) = { db[k].id : k \in newer }

\* a read has failed while the window of the query held two rows or more
C13_Witness ==
    /\ response # <<>>
    /\ response[1].status = 500
    /\ Cardinality({ k \in 1..Len(db) :
                        db[k].timestamp > now - EffectiveWindow(response[1].query) }) >= 2

\* list[1][field] + ... + list[n][field]
RECURSIVE TotalOf(_, _)
TotalOf(list, field) ==
    IF list = <<>> THEN 0 ELSE list[1][field] + TotalOf(Tail(list), field)

\* the step appends to the table
RowAppended == Len(db') > Len(db)

\* the recorder's timer is due and the table has room in this model
RecorderCanRun == bootPc = "started" /\ RecorderDue /\ nextId <= MaxRows

\* C14: a recorder tick that writes appends exactly one row to the table;
\* the row holds cpu.load, memory.percentage, the sums of rx_sec and of tx_sec
\* over the network entries and the use of the first disk entry, of the
\* snapshot of that instant, which the tick leaves as it is; a due tick can
\* run whatever the observers' connections and the outcome of the last
\* sampler run.
C14_RowFromSnapshot ==
    /\ [](RecorderCanRun => ENABLED RecordHistory(TRUE))
    /\ [][RowAppended =>
            /\ Len(db') = Len(db) + 1
            /\ SubSeq(db', 1, Len(db)) = db
            /\ latestMetrics' = latestMetrics
            /\ db'[Len(db')].timestamp = now
            /\ \A k \in 1..Len(db) : db[k].id # db'[Len(db')].id
            /\ "load" \in DOMAIN latestMetrics.cpu
                  => db'[Len(db')].cpu_load = latestMetrics.cpu.load
            /\ "percentage" \in DOMAIN latestMetrics.memory
                  => db'[Len(db')].mem_percentage = latestMetrics.memory.percentage
            /\ db'[Len(db')].net_rx = TotalOf(latestMetrics.network, "rx_sec")
            /\ db'[Len(db')].net_tx = TotalOf(latestMetrics.network, "tx_sec")
            /\ latestMetrics.disk # <<>>
                  => db'[Len(db')].disk_usage = latestMetrics.disk[1].use]_vars

\* two rows have been written while an observer is connected: the Fast run
\* completed before the first tick and none has since; the second row is
\* from a snapshot with two network entries and two disk entries
C14_Witness ==
    /\ Len(db) = 2
    /\ db[1].mem_percentage = 75
    /\ db[1].net_rx = 0
    /\ db[2].cpu_load = 90
    /\ db[2].mem_percentage = 75
    /\ db[2].net_rx = 305
    /\ db[2].net_tx = 25
    /\ db[2].disk_usage = 90
    /\ db[2].timestamp = now
    /\ phase["o1"] = "connected"

\* C15: a recorder tick that finds the snapshot at its defaults still appends
\* one row, whose five values are 0; a row written while only some facets
\* are unpopulated has 0 for those: cpu and mem for the empty cpu and memory,
\* rx and tx for the empty network list, disk for the empty disk list.
C15_ZeroForUnpopulated ==
    /\ []((RecorderCanRun /\ latestMetrics = DefaultMetrics) => ENABLED RecordHistory(TRUE))
    /\ [][RowAppended =>
            /\ Len(db') = Len(db) + 1
            /\ latestMetrics.cpu = EmptyObject => db'[Len(db')].cpu_load = 0
            /\ latestMetrics.memory = EmptyObject => db'[Len(db')].mem_percentage = 0
            /\ latestMetrics.network = <<>>
                  => db'[Len(db')].net_rx = 0 /\ db'[Len(db')].net_tx = 0
            /\ latestMetrics.disk = <<>> => db'[Len(db')].disk_usage = 0
            /\ latestMetrics = DefaultMetrics
                  => \A c \in {"cpu_load", "mem_percentage", "net_rx", "net_tx", "disk_usage"} :
                        db'[Len(db')][c] = 0]_vars

\* the first row was written from the default snapshot and the second from
\* one whose network facet alone was populated
C15_Witness ==
    /\ Len(db) = 2
    /\ \A c \in {"cpu_load", "mem_percentage", "net_rx", "net_tx", "disk_usage"} : db[1][c] = 0
    /\ db[2].net_rx > 0
    /\ db[2].cpu_load = 0
    /\ db[2].mem_percentage = 0
    /\ db[2].disk_usage = 0
    /\ latestMetrics.cpu = EmptyObject
    /\ latestMetrics.disk = <<>>

\* C16: a janitor run that succeeds at time now leaves no row with a
\* timestamp earlier than now minus 7 days, and leaves every row with a
\* timestamp at or after it in the table, in place and with its fields.
C16_JanitorHorizon ==
    [][CleanupHistory(TRUE) =>
        /\ \A j \in 1..Len(db') : db'[j].timestamp >= now - 7 * Day
        /\ db' = SelectSeq(db, LAMBDA r : r.timestamp >= now - 7 * Day)
        /\ now' = now]_vars

\* the janitor has deleted the first row and has kept a row that is exactly
\* 7 days old
C16_Witness ==
    /\ db # <<>>
    /\ db[1].id > 1
    /\ db[1].timestamp = now - 7 * Day
    /\ JanitorDue

\* C17: in every step every row of the table either stays in it with all
\* its fields, or is older than 7 days and the step is a janitor run; no
\* step changes a row and keeps its id.
C17_RowsImmutable ==
    [][/\ \A k \in 1..Len(db) :
             \/ \E j \in 1..Len(db') : db'[j] = db[k]
             \/ CleanupHistory(TRUE) /\ db[k].timestamp < now - 7 * Day
       /\ \A k \in 1..Len(db), j \in 1..Len(db') :
             db'[j].id = db[k].id => db'[j] = db[k]]_vars

\* the janitor has deleted the first row and kept the second, in a process
\* whose samplers have filled the snapshot and to which an observer is
\* connected
C17_Witness ==
    /\ Len(db) = 1
    /\ db[1].id = 2
    /\ db[1].cpu_load > 0
    /\ latestMetrics.network # <<>>
    /\ phase["o1"] = "connected"

IdsOf(table) == { table[k].id : k \in 1..Len(table) }

\* C18: a query answered at the instant a row was inserted returns that row
\* (with the 1h window and with every other); a janitor run that succeeds
\* later than 7 days after a row's timestamp removes the row; a removed row
\* never comes back, since a step adds a row only under an id that no row
\* has had; and a reply holds rows of the table only.
C18_Retention ==
    /\ [](\A k \in 1..Len(db) : db[k].id < nextId)
    /\ []((response # <<>> /\ response[1].status = 200) =>
             /\ IdsIn(response[1]) \subseteq IdsOf(db)
             /\ \A k \in 1..Len(db) :
                   db[k].timestamp = now => db[k].id \in IdsIn(response[1]))
    /\ [][/\ CleanupHistory(TRUE) =>
                \A k \in 1..Len(db) :
                    now > db[k].timestamp + 7 * Day => db[k].id \notin IdsOf(db')
          /\ \A id \in IdsOf(db') \ IdsOf(db) : id >= nextId /\ id < nextId']_vars

\* the janitor has removed the first row, a row has been inserted at this
\* instant, and a 1h query has returned it alone
C18_Witness ==
    /\ AnsweredToken("1h")
    /\ 1 \notin IdsOf(db)
    /\ Len(db) >= 2
    /\ db[Len(db)].timestamp = now
    /\ response[1].rowids = <<db[Len(db)].id>>

\* C19: a recorder tick whose insert fails and a janitor run whose delete
\* fails leave the table, the id counter, the clock and the snapshot as they
\* were, and leave the timer of the component due, so that a later tick of
\* it can run.
C19_FailedWriteSkipped ==
    /\ [](bootPc = "started" =>
             /\ RecorderCanRun => ENABLED RecordHistory(TRUE)
             /\ JanitorDue => ENABLED CleanupHistory(TRUE))
    /\ [][/\ (RecordHistory(FALSE) \/ CleanupHistory(FALSE)) =>
                /\ db' = db
                /\ nextId' = nextId
                /\ now' = now
                /\ latestMetrics' = latestMetrics
                /\ bootPc' = bootPc
          /\ RecordHistory(FALSE) => RecorderDue'
          /\ CleanupHistory(FALSE) => JanitorDue']_vars

\* the table holds a row older than 7 days and a newer one, and both timers
\* are due: an insert or a delete that fails now is the one skipped
C19_Witness ==
    /\ Len(db) >= 2
    /\ db[1].timestamp < now - 7 * Day
    /\ db[Len(db)].timestamp >= now - 7 * Day
    /\ RecorderCanRun
    /\ JanitorDue

\* the steps in which a failure is handled: a sampler run ends in its catch
\* block, the static fetch of startBackgroundTasks rejects, an insert or a
\* delete throws, a query is answered with status 500
FailureHandled ==
    \/ FastFails \/ NetworkFails \/ DiskFails
    \/ BootResume(FALSE)
    \/ RecordHistory(FALSE) \/ CleanupHistory(FALSE)
    \/ response' # <<>> /\ response'[1].status = 500

----------------------------------------------------------------------------
(* Claims about process-level faults, overlapping runs and ownership *)

\* C21: a fault raised outside every try/catch, such as an exception in the
\* observer-connection callback, is logged and the process stays alive with
\* its timers running, instead of exiting.
C21_ProcessSurvivesFault ==
    /\ bootPc \in {"static", "started"}
    /\ (bootPc = "started" /\ ticks < MaxTicks) =>
            ENABLED FastTick /\ ENABLED NetworkTick /\ ENABLED DiskTick

\* run i of updateFastMetrics completes in this step with a write
CompletesFast(i) ==
    /\ i \in 1..Len(fastRuns)
    /\ ~lastFailed'
    /\ Len(fastRuns') = Len(fastRuns) - 1
    /\ \A j \in 1..Len(fastRuns') :
            fastRuns'[j].time = fastRuns[IF j < i THEN j ELSE j + 1].time
    /\ \A j \in 1..Len(fastRuns') :
            fastRuns'[j].status = fastRuns[IF j < i THEN j ELSE j + 1].status
    /\ \A j \in 1..Len(fastRuns') :
            fastRuns'[j].resp = fastRuns[IF j < i THEN j ELSE j + 1].resp
    /\ \A j \in 1..(i - 1) : fastRuns'[j].overtaken

\* C22: writes are applied in completion order.  When a Fast run completes
\* after a run issued later has already completed, cpu.load, memory and
\* uptime become the readings of the completing (earlier issued) run, and the
\* event broadcast in that step, the last one so far, carries them.
C22_LastCompletionWins ==
    [][\A i \in 1..Len(fastRuns) :
          (CompletesFast(i) /\ fastRuns[i].overtaken) =>
             /\ latestMetrics'.uptime = fastRuns[i].time.uptime
             /\ \E resp \in FastResponses :
                   /\ fastRuns[i].status = "static" => resp = fastRuns[i].resp[1]
                   /\ latestMetrics'.cpu.load = resp.load.currentLoad
                   /\ latestMetrics'.memory = WholeMemory(resp.mem)
             /\ \A o \in Observers :
                   phase[o] = "connected" =>
                      received'[o] = Append(received[o], latestMetrics')]_vars

\* both runs have completed, the connected observer has been sent the uptime
\* read at second 1 and after it the uptime read at second 0, which the
\* snapshot now holds: the run issued first completed last
C22_Witness ==
    /\ fastRuns = <<>>
    /\ phase["o1"] = "connected"
    /\ Len(received["o1"]) >= 2
    /\ received["o1"][Len(received["o1"]) - 1].uptime = 1
    /\ received["o1"][Len(received["o1"])].uptime = 0
    /\ latestMetrics.uptime = 0
    /\ latestMetrics = received["o1"][Len(received["o1"])]

\* C23: the three sampler timers follow one overlap discipline.  Whatever
\* runs are pending, each timer can fire, and a timer that fires issues one
\* new run of its task, pending on the provider, and touches no other run.
C23_TicksAlwaysIssue ==
    /\ [](bootPc = "started" /\ ticks < MaxTicks =>
            ENABLED FastTick /\ ENABLED NetworkTick /\ ENABLED DiskTick)
    /\ [][ticks' = ticks + 1 =>
            \/ /\ Len(fastRuns') = Len(fastRuns) + 1
               /\ fastRuns'[Len(fastRuns')].status = "pending"
               /\ \A j \in 1..Len(fastRuns) : fastRuns'[j] = fastRuns[j]
               /\ networkRuns' = networkRuns /\ diskRuns' = diskRuns
            \/ /\ networkRuns' = networkRuns + 1
               /\ fastRuns' = fastRuns /\ diskRuns' = diskRuns
            \/ /\ diskRuns' = diskRuns + 1
               /\ fastRuns' = fastRuns /\ networkRuns' = networkRuns]_vars

\* two Fast runs and two Network runs are pending at once: a tick of each
\* timer has fired while the run of startBackgroundTasks was still pending
C23_Witness ==
    /\ Len(fastRuns) = 2
    /\ \A j \in 1..2 : fastRuns[j].status = "pending"
    /\ networkRuns = 2
    /\ diskRuns = 1
    /\ ticks = 2

\* C24: every store operation is a suspension point.  The turn in which the
\* recorder, the janitor or the query handler issues its statement ends with
\* the statement pending, that is with the table as it was and no reply
\* sent; the effect comes in a later turn, and other callbacks can run in
\* between.
C24_StoreOpsSuspend ==
    [][(\E ok \in BOOLEAN :
            \/ RecordHistory(ok)
            \/ CleanupHistory(ok)
            \/ \E query \in Queries : GetHistory(query, ok))
          => db' = db /\ response' = <<>>]_vars

\* the columns of table metrics
Columns ==
    {"id", "timestamp", "cpu_load", "mem_percentage", "net_rx", "net_tx", "disk_usage"}

\* C25: with no lock of its own, the backend keeps the table at every moment
\* in a state that a sequence of complete operations produces: a step that
\* changes it is one whole insert (one row with every column, stamped now) or
\* one whole delete (every row older than 7 days and no other).  Every reply
\* is read from such a state: each row sent is a complete row of the table,
\* and no row of the table that the window covers is left out.
C25_SerialStore ==
    /\ [](\A k \in 1..Len(db) :
            /\ DOMAIN db[k] = Columns
            /\ \A j \in 1..(k - 1) : db[j].id < db[k].id /\ db[j].timestamp < db[k].timestamp)
    /\ [](response # <<>> /\ response[1].status = 200 =>
            LET reply == response[1]
            IN  /\ \A k \in 1..Len(reply.rowids) :
                      /\ \E j \in 1..Len(db) : db[j].id = reply.rowids[k]
                      /\ DOMAIN reply.body[k] = {"time", "cpu", "mem", "rx", "tx", "disk"}
                      /\ reply.body[k].cpu = RowOf(reply.rowids[k]).cpu_load
                      /\ reply.body[k].disk = RowOf(reply.rowids[k]).disk_usage
                /\ \A j \in 1..Len(db) :
                      db[j].timestamp > now - EffectiveWindow(reply.query) =>
                          db[j].id \in IdsIn(reply))
    /\ [][db' # db =>
            \/ /\ Len(db') = Len(db) + 1
               /\ SubSeq(db', 1, Len(db)) = db
               /\ db'[Len(db')].id = nextId
               /\ db'[Len(db')].timestamp = now
            \/ db' = SelectSeq(db, LAMBDA r : r.timestamp >= now - 7 * Day)]_vars

\* rows have been inserted and one has been deleted, and a query that came
\* after has been sent every row left
C25_Witness ==
    /\ response # <<>>
    /\ response[1].status = 200
    /\ Len(db) >= 2
    /\ Len(db) < nextId - 1
    /\ Len(response[1].rowids) = Len(db)

\* C26: each component changes only what it owns.  A step that ends a Fast
\* run leaves network, disk and the table alone; one that ends a Network run
\* leaves cpu, memory, uptime, disk and the table alone; one that ends a Disk
\* run leaves cpu, memory, uptime, network and the table alone; a step of the
\* recorder or the janitor, which alone change the table, leaves the snapshot
\* and the runs in flight alone; a run that ends in failure changes neither
\* snapshot nor table.  Conversely a facet changes only in a step that ends
\* a run of its owner.
C26_OwnFacetsOnly ==
    [][/\ Len(fastRuns') < Len(fastRuns) =>
            /\ latestMetrics'.network = latestMetrics.network
            /\ latestMetrics'.disk = latestMetrics.disk
            /\ db' = db /\ nextId' = nextId
       /\ networkRuns' < networkRuns =>
            /\ latestMetrics'.cpu = latestMetrics.cpu
            /\ latestMetrics'.memory = latestMetrics.memory
            /\ latestMetrics'.uptime = latestMetrics.uptime
            /\ latestMetrics'.disk = latestMetrics.disk
            /\ staticData' = staticData
            /\ db' = db /\ nextId' = nextId
       /\ diskRuns' < diskRuns =>
            /\ latestMetrics'.cpu = latestMetrics.cpu
            /\ latestMetrics'.memory = latestMetrics.memory
            /\ latestMetrics'.uptime = latestMetrics.uptime
            /\ latestMetrics'.network = latestMetrics.network
            /\ staticData' = staticData
            /\ db' = db /\ nextId' = nextId
       /\ (db' # db \/ nextId' # nextId) =>
            /\ latestMetrics' = latestMetrics
            /\ staticData' = staticData
            /\ fastRuns' = fastRuns /\ networkRuns' = networkRuns /\ diskRuns' = diskRuns
            /\ received' = received
       /\ (FastFails \/ NetworkFails \/ DiskFails) =>
            /\ latestMetrics' = latestMetrics
            /\ staticData' = staticData
            /\ db' = db /\ nextId' = nextId
       /\ (\/ latestMetrics'.cpu # latestMetrics.cpu
           \/ latestMetrics'.memory # latestMetrics.memory
           \/ latestMetrics'.uptime # latestMetrics.uptime) => Len(fastRuns') < Len(fastRuns)
       /\ latestMetrics'.network # latestMetrics.network => networkRuns' < networkRuns
       /\ latestMetrics'.disk # latestMetrics.disk => diskRuns' < diskRuns]_vars

\* the Fast and Disk runs have filled their facets, the Network run has
\* failed and its facet is still empty, the recorder has written rows from
\* that snapshot and the janitor has deleted one
C26_Witness ==
    /\ "load" \in DOMAIN latestMetrics.cpu
    /\ latestMetrics.disk # <<>>
    /\ latestMetrics.network = <<>>
    /\ lastFailed
    /\ fastRuns = <<>> /\ networkRuns = 0 /\ diskRuns = 0
    /\ db # <<>>
    /\ Len(db) < nextId - 1
    /\ db[Len(db)].cpu_load = latestMetrics.cpu.load
    /\ db[Len(db)].net_rx = 0

\* the calls of getStaticData that await si.cpu() inside a Fast run
StaticQueries(runs) == { j \in 1..Len(runs) : runs[j].status = "static" }

\* C27: the static identity is fetched once and cached for ever.  Once
\* staticData is set, no step issues another si.cpu() query and no step
\* changes staticData.
C27_CachedForever ==
    [][staticData # <<>> =>
          /\ Cardinality(StaticQueries(fastRuns')) <= Cardinality(StaticQueries(fastRuns))
          /\ staticData' = staticData]_vars

\* load and memory are the readings of one resolved Promise.all
OneFastRun(load, memory) ==
    \E resp \in FastResponses :
        load = resp.load.currentLoad /\ memory = WholeMemory(resp.mem)

\* cpu.load, memory and uptime of m are all defaults or all of one Fast run
FastFacetsOfOneRun(m) ==
    \/ /\ "load" \notin DOMAIN m.cpu
       /\ m.memory = EmptyObject
       /\ m.uptime = 0
    \/ /\ "load" \in DOMAIN m.cpu
       /\ OneFastRun(m.cpu.load, m.memory)
       /\ m.uptime \in 0..MaxUptime

\* C28: a Fast run is all-or-nothing.  In the snapshot, in every event sent
\* to an observer and in every history row, the cpu load and the memory
\* figures are both defaults or both readings of one Fast run; a step changes
\* cpu, memory or uptime only by ending a Fast run, and then sets all three
\* from that run: the uptime read when it was issued and the responses it
\* was resolved with.
C28_FastAllOrNothing ==
    /\ [](/\ FastFacetsOfOneRun(latestMetrics)
          /\ \A o \in Observers : \A k \in 1..Len(received[o]) :
                FastFacetsOfOneRun(received[o][k])
          /\ \A k \in 1..Len(db) :
                \/ db[k].cpu_load = 0 /\ db[k].mem_percentage = 0
                \/ \E resp \in FastResponses :
                      /\ db[k].cpu_load = resp.load.currentLoad
                      /\ db[k].mem_percentage = (resp.mem.used * 100) \div resp.mem.total)
    /\ [][IF FastSucceeds
          THEN \E i \in 1..Len(fastRuns) :
                  /\ CompletesFast(i)
                  /\ latestMetrics'.uptime = fastRuns[i].time.uptime
                  /\ fastRuns[i].status = "static" =>
                        /\ latestMetrics'.cpu.load = fastRuns[i].resp[1].load.currentLoad
                        /\ latestMetrics'.memory = WholeMemory(fastRuns[i].resp[1].mem)
          ELSE /\ latestMetrics'.cpu = latestMetrics.cpu
               /\ latestMetrics'.memory = latestMetrics.memory
               /\ latestMetrics'.uptime = latestMetrics.uptime]_vars

\* two Fast runs with different readings have completed, the second after
\* the host's clock moved on; the observer has been sent both and the
\* recorder has stored a row of each
C28_Witness ==
    /\ Len(received["o1"]) >= 2
    /\ received["o1"][Len(received["o1"])].memory = WholeMemory(MemLow)
    /\ received["o1"][Len(received["o1"])].uptime = 1
    /\ received["o1"][Len(received["o1"]) - 1].memory = WholeMemory(MemHigh)
    /\ Len(db) = 2
    /\ db[1].cpu_load = 90 /\ db[1].mem_percentage = 75
    /\ db[2].cpu_load = 10 /\ db[2].mem_percentage = 25
    /\ latestMetrics.cpu.load = 10

\* the fields of staticData.cpu
IdentityFields == {"manufacturer", "brand", "speed", "cores"}

\* C29: once the cpu facet of the snapshot holds the identity fields, it
\* holds them in every later state.
C29_IdentityKept ==
    [][IdentityFields \subseteq DOMAIN latestMetrics.cpu =>
          IdentityFields \subseteq DOMAIN latestMetrics'.cpu]_vars

\* C30: the janitor deletes no row that a query made at the same instant
\* returns.  A janitor run keeps every row of the reply just sent for a
\* query at this instant, every row that is inside the window of some range
\* token, and the row stamped exactly now minus 7 days; and no reply
\* contains a row stamped exactly now minus 7 days.
C30_JanitorSparesQueried ==
    /\ [][CleanupHistory(TRUE) =>
            /\ (response # <<>> /\ response[1].status = 200) =>
                    IdsIn(response[1]) \subseteq IdsOf(db')
            /\ \A k \in 1..Len(db) :
                    (\E token \in Tokens : db[k].timestamp > now - WindowOf(token)) =>
                        db[k].id \in IdsOf(db')
            /\ \A k \in 1..Len(db) :
                    db[k].timestamp = now - 7 * Day => db[k].id \in IdsOf(db')]_vars
    /\ [](response # <<>> /\ response[1].status = 200 =>
            \A k \in 1..Len(db) :
                db[k].timestamp = now - 7 * Day => db[k].id \notin IdsIn(response[1]))

\* the janitor has deleted the row older than 7 days and kept the row stamped
\* exactly 7 days ago, and a 7d query at the same instant has returned the
\* younger rows without it
C30_Witness ==
    /\ db # <<>>
    /\ db[1].timestamp = now - 7 * Day
    /\ db[1].id > 1
    /\ Len(db) >= 2
    /\ AnsweredToken("7d")
    /\ response[1].rowids # <<>>
    /\ db[1].id \notin IdsIn(response[1])

----------------------------------------------------------------------------
(* Claims about nested windows, the triggers of events and delivery *)

\* every element of narrow is in wide, and in the same relative order
NestedIn(narrow, wide) ==
    /\ \A j \in 1..Len(narrow) : \E a \in 1..Len(wide) : wide[a] = narrow[j]
    /\ \A j, k \in 1..Len(narrow) :
          j < k => \E a, b \in 1..Len(wide) :
                      a < b /\ wide[a] = narrow[j] /\ wide[b] = narrow[k]

\* C31: on the same table at the same instant the replies are nested: when a
\* query with a token is answered right after a query with a token of a
\* window no wider, every row of the first reply is in the second, in the
\* same relative order (so 1h within 6h within 24h within 7d).  And no reply
\* to any query holds a row older than 7 days, whether or not the janitor
\* has run.
C31_NestedWindows ==
    /\ [][\A t1, t2 \in Tokens :
            (/\ WindowOf(t1) <= WindowOf(t2)
             /\ AnsweredToken(t1)
             /\ response' # <<>>
             /\ response'[1].status = 200
             /\ response'[1].query = [range |-> t2]
             /\ now' = now /\ db' = db) =>
                /\ NestedIn(response[1].rowids, response'[1].rowids)
                /\ NestedIn(response[1].body, response'[1].body)]_vars
    /\ [](response # <<>> =>
            \A k \in 1..Len(response[1].rowids) :
                RowOf(response[1].rowids[k]).timestamp > now - 7 * Day)

\* the janitor has never deleted anything and the table holds a row older
\* than 7 days and rows of different ages; a 24h query has left out the old
\* row and another one
C31_Witness ==
    /\ AnsweredToken("24h")
    /\ Len(db) = nextId - 1
    /\ Len(db) >= 4
    /\ db[1].timestamp < now - 7 * Day
    /\ Len(response[1].rowids) = 2
    /\ db[Len(db)].timestamp > now - Hour

\* C32: a 'metrics' event is sent to an observer only when it connects and
\* when a Fast run completes with success.  The step that connects an
\* observer sends it one event; a step that ends a Fast run with success
\* sends one event to each connected observer; every other step (a Fast run
\* that fails, a Network or Disk run, the recorder, the janitor, a query,
\* time passing) sends nothing.  So a connected observer holds one event
\* plus one for each Fast run that has succeeded since it connected.
C32_EventTriggers ==
    [][\A o \in Observers :
          /\ (phase[o] = "new" /\ phase'[o] = "connected") =>
                Len(received'[o]) = 1
          /\ (phase[o] = "connected" /\ phase'[o] = "connected") =>
                received'[o] = IF FastSucceeds
                               THEN Append(received[o], latestMetrics')
                               ELSE received[o]
          /\ phase'[o] = "new" => received'[o] = <<>>]_vars

\* the observer connected first and was sent the default snapshot; the Fast
\* run then succeeded and sent the second event; after it the Network and
\* Disk runs filled their facets, the recorder wrote rows, the janitor
\* deleted one and a query was answered, and the observer still holds two
\* events
C32_Witness ==
    /\ phase["o1"] = "connected"
    /\ Len(received["o1"]) = 2
    /\ received["o1"][1] = DefaultMetrics
    /\ received["o1"][2].network = <<>>
    /\ received["o1"][2].disk = <<>>
    /\ latestMetrics.network # <<>>
    /\ latestMetrics.disk # <<>>
    /\ fastRuns = <<>>
    /\ db # <<>>
    /\ Len(db) < nextId - 1
    /\ response # <<>>

\* the last event sent to observer o
LastEvent(o) == received[o][Len(received[o])]

\* observer o is connected and the network or disk facet of the snapshot is
\* not the one of the last event it was sent
Lagging(o) ==
    /\ phase[o] = "connected"
    /\ \/ LastEvent(o).network # latestMetrics.network
       \/ LastEvent(o).disk # latestMetrics.disk

\* the last event sent to o carries the network and disk facets the snapshot
\* holds now
Synced(o) ==
    /\ phase[o] = "connected"
    /\ LastEvent(o).network = latestMetrics.network
    /\ LastEvent(o).disk = latestMetrics.disk

\* C33: while the timers keep firing and Fast runs keep completing, every
\* Network or Disk update reaches each connected observer: whenever the
\* snapshot holds a network or disk facet that the observer's last event
\* does not carry, a later event carries the facets the snapshot holds then
\* (the updated ones or newer).
C33_EventuallyDelivered ==
    \A o \in Observers : Lagging(o) ~> Synced(o)

\* the observer was sent an event before the Network and Disk runs wrote
\* their facets, and no event since
C33_Witness ==
    /\ phase["o1"] = "connected"
    /\ LastEvent("o1").network = <<>>
    /\ LastEvent("o1").disk = <<>>
    /\ latestMetrics.network # <<>>
    /\ latestMetrics.disk # <<>>
    /\ "load" \in DOMAIN LastEvent("o1").cpu

----------------------------------------------------------------------------
(* Claims about the program the installer writes, and about the dashboard *)

\* C34: the index.js that the installer writes behaves as backend/index.js
\* does at the push and query boundaries.  Of what backend/index.js does, it
\* is stated here that an observer is sent the snapshot in the step that
\* connects it, that the process never exits (a janitor delete that fails
\* included), and that the first Fast, Network and Disk runs are issued at
\* startup, before any timer has fired.
C34_EmbeddedBehavesAsBackend ==
    /\ [][\A o \in Observers :
            (phase[o] = "new" /\ phase'[o] = "connected") =>
                received'[o] = <<latestMetrics>>]_vars
    /\ [](bootPc \in {"static", "started"})
    /\ []((bootPc = "started" /\ ticks = 0 /\ latestMetrics = DefaultMetrics /\ ~lastFailed) =>
            (fastRuns # <<>> /\ networkRuns > 0 /\ diskRuns > 0))

\* C35: in the dashboard, over server switches, URL edits and retry clicks,
\* at most one socket is open at a time, and it is the one of the state,
\* made for the url of the selected server; a step that opens a connection
\* leaves every earlier socket closed and the displayed metrics and live
\* history empty; and what is displayed was delivered by the open socket,
\* never by one of a server selected before.
C35_OneOpenSocket ==
    /\ [](\A j, k \in 1..Len(sockets) : (sockets[j].open /\ sockets[k].open) => j = k)
    /\ [](\A k \in 1..Len(sockets) :
              sockets[k].open => (k = socket /\ sockets[k].url = activeServer.url))
    /\ [][Len(sockets') > Len(sockets) =>
              /\ \A k \in 1..Len(sockets) : ~sockets'[k].open
              /\ sockets'[Len(sockets')].open
              /\ metrics' = <<>>
              /\ history' = <<>>]_vars
    /\ []((metrics # <<>> => sockets[metrics[1]].open)
          /\ \A n \in 1..Len(history) : sockets[history[n]].open)

\* after a switch to a server with another url and a retry click, metrics and
\* a live point of the new connection are displayed
C35_Witness ==
    /\ Len(sockets) >= 3
    /\ socket # effectSocket
    /\ \E k \in 1..Len(sockets) : ~sockets[k].open /\ sockets[k].url # sockets[socket].url
    /\ metrics # <<>>
    /\ history # <<>>

\* C36: in the dashboard, through addServer, deleteServer and
\* updateActiveServer the server list is never empty and activeServerId is
\* the id of a server of the list; a step that removes a server starts with
\* more than one, and if it removes the selected server, the first of those
\* that remain is selected.
C36_ActiveServerListed ==
    /\ [](servers # <<>> /\ \E i \in 1..Len(servers) : servers[i].id = activeServerId)
    /\ [][Len(servers') < Len(servers) =>
              /\ Len(servers) > 1
              /\ \E d \in 1..Len(servers) :
                     /\ servers' = [i \in 1..(Len(servers) - 1) |->
                                       IF i < d THEN servers[i] ELSE servers[i + 1]]
                     /\ activeServerId' = IF servers[d].id = activeServerId
                                          THEN servers'[1].id
                                          ELSE activeServerId]_vars

\* the default server, selected at first, has been deleted, and the server
\* that is left cannot be
C36_Witness ==
    /\ Len(servers) = 1
    /\ servers[1].id # "default"
    /\ activeServerId = servers[1].id

====
